---------------------------- MODULE Spec2Model ----------------------------
(***************************************************************************)
(* A model of the resilient signed-request engine of wxread:               *)
(*   - CircuitBreaker and retry_with_backoff   (src/src/utils/retry.py)    *)
(*   - RequestManager.post_json / read_book    (src/src/core/request_manager.py) *)
(*   - WxReadBot.read_once / start_reading     (src/src/core/bot.py)       *)
(*   - CryptoUtils                             (src/src/core/crypto.py)    *)
(* The specifications share the variables:                                 *)
(*   SpecCB      a CircuitBreaker driven by arbitrary calls,               *)
(*   SpecRetry   one call of a retry_with_backoff wrapper,                 *)
(*   Spec        one run of WxReadBot.start_reading,                       *)
(*   SpecLive    such a run in which every call and every sleep returns,   *)
(*   SpecFleet   two WxReadBot instances side by side,                     *)
(*   SpecHash    one call of calculate_hash,                               *)
(*   SpecEncode  calls of encode_data,                                     *)
(*   SpecRequest one call of create_request_data.                          *)
(***************************************************************************)
EXTENDS Integers, Sequences, FiniteSets, TLC

VARIABLES
    pc,                 \* control position of the specification's process
    now,                \* the clock: int(time.time()) / datetime.now(), in seconds
    \* ---- CircuitBreaker fields (retry.py:116-122)
    state, failure_count, last_failure_time, failure_threshold, recovery_timeout,
    \* ---- retry_with_backoff.wrapper locals (retry.py:55-57)
    max_attempts, attempt, last_exception,
    max_delay,          \* the max_delay the wrapper was built with (retry.py:34)
    \* ---- WxReadBot / start_reading state (bot.py:44, 236-239)
    read_num, loop_attempt, success_count, last_time, cookies,
    request_data, response, result, notification_enabled,
    headers,            \* self.headers (bot.py:56-59)
    base_cookies,       \* the entries of self.cookies other than wr_skey (bot.py:56-60)
    \* ---- the instances of SpecFleet
    fleet,
    \* ---- CryptoUtils.calculate_hash (crypto.py:57-92)
    input_string,       \* the argument, as the sequence of its character codes
    h1,                 \* _7032f5, as its binary digits, lowest first
    h2,                 \* _cc1055, likewise
    idx,                \* _19094e
    digest,             \* the returned string, as the sequence of its characters
    \* ---- CryptoUtils.encode_data and create_request_data (crypto.py:30-54, 148-198)
    args,               \* the arguments of the call
    data,               \* the dict `data`: its items in insertion order
    encoded,            \* the string encode_data returned, as its character codes
    \* ---- observation variables (history the claims speak about)
    calls,              \* SpecCB: calls made through the breaker so far
    last_call,          \* how the latest call through the breaker ended
    fail_run,           \* counted failures since the latest success (or reset)
    half_open_calls,    \* invocations of the wrapped function since HALF_OPEN was entered
    entered,            \* the breaker's fields when the call in progress began
    invocations,        \* invocations of the wrapped operation in the current wrapper call
    sleeps,             \* backoff sleeps in the current wrapper call
    operation,          \* SpecRetry: what the wrapped operation does on its 1st, 2nd, ... invocation
    outcome,            \* how the wrapper call / the attempt / the run ended
    history,            \* Spec: what the current attempt has done so far
    run                 \* Spec: what the run has done so far

cbVars    == <<state, failure_count, last_failure_time, failure_threshold, recovery_timeout>>
retryVars == <<max_attempts, attempt, last_exception, max_delay>>
botVars   == <<read_num, loop_attempt, success_count, last_time, cookies,
               request_data, response, result, notification_enabled>>
cbObs     == <<calls, last_call, fail_run, half_open_calls, entered>>
retryObs  == <<invocations, sleeps, operation>>
botObs    == <<outcome, history, run>>
sessionVars == <<headers, base_cookies>>
hashVars  == <<input_string, h1, h2, idx, digest>>
cryptoVars == <<args, data, encoded>>
extVars   == <<fleet, hashVars, cryptoVars>>
vars      == <<pc, now, cbVars, retryVars, botVars, cbObs, retryObs, botObs,
               sessionVars, extVars>>

(***************************************************************************)
(* Bounds of the model.                                                    *)
(***************************************************************************)
MaxThreshold == 2       \* SpecCB: failure_threshold ranges over 1..MaxThreshold
MaxTimeout   == 2       \* SpecCB: recovery_timeout ranges over 1..MaxTimeout
MaxCalls     == 5       \* SpecCB: calls made through the breaker
MaxClock     == 4       \* SpecCB: the clock stops advancing here
MaxRetryAttempts == 3   \* SpecRetry: max_attempts ranges over 1..MaxRetryAttempts

(***************************************************************************)
(* CircuitBreaker (retry.py:94-190)                                        *)
(***************************************************************************)
NoTime == -1            \* last_failure_time = None

CLOSED    == "closed"
OPEN      == "open"
HALF_OPEN == "half_open"

\* _should_attempt_reset
ShouldAttemptReset(lft, t, timeout) ==
    IF lft = NoTime THEN TRUE ELSE t - lft >= timeout

GateRejects_Never(st, lft, t, timeout) == FALSE

\* The gate of _call_with_circuit_breaker: does the call raise CircuitBreakerError
\* before the wrapped function is invoked?
GateRejects(st, lft, t, timeout) ==
    st = OPEN /\ ~ShouldAttemptReset(lft, t, timeout)

\* The state in which a call that passed the gate invokes the wrapped function.
GateState(st, lft, t, timeout) ==
    IF st = OPEN /\ ShouldAttemptReset(lft, t, timeout) THEN HALF_OPEN ELSE st

\* a variant in which a success closes the breaker but keeps the count
OnSuccess_KeepsCount(st, fc, lft) ==
    [state |-> CLOSED, failure_count |-> fc, last_failure_time |-> lft]

\* _on_success: the fields after a call that returned
OnSuccess(st, fc, lft) ==
    [state |-> CLOSED, failure_count |-> 0, last_failure_time |-> lft]

OnFailure_KeepsCooldown(st, fc, lft, t, threshold) ==
    [state |-> IF fc + 1 >= threshold THEN OPEN ELSE st,
     failure_count |-> fc + 1,
     last_failure_time |-> IF lft = NoTime THEN t ELSE lft]

OnFailure_LateOpen(st, fc, lft, t, threshold) ==
    [state |-> IF fc + 1 > threshold THEN OPEN ELSE st,
     failure_count |-> fc + 1, last_failure_time |-> t]

\* a variant that does not record the time of the failure
OnFailure_NoTimestamp(st, fc, lft, t, threshold) ==
    [state |-> IF fc + 1 >= threshold THEN OPEN ELSE st,
     failure_count |-> fc + 1, last_failure_time |-> lft]

\* _on_failure: the fields after a call that raised expected_exception
OnFailure(st, fc, lft, t, threshold) ==
    [state |-> IF fc + 1 >= threshold THEN OPEN ELSE st,
     failure_count |-> fc + 1, last_failure_time |-> t]

\* What the wrapped function can do, as the breaker sees it:
\* return, raise expected_exception, raise some other exception.
CallOutcomes == {"ok", "expected", "other"}

\* The fields after a call that passed the gate in state st and ended with o
\* (lines 144-150; an exception outside expected_exception is not caught).
AfterCall(o, st, fc, lft, t, threshold) ==
    CASE o = "ok"       -> OnSuccess(st, fc, lft)
      [] o = "expected" -> OnFailure(st, fc, lft, t, threshold)
      [] OTHER          -> [state |-> st, failure_count |-> fc, last_failure_time |-> lft]

\* Observation: no call through the breaker is in progress
NoEntry == [state |-> "none", failure_count |-> 0, last_failure_time |-> NoTime]

\* Observation: the run of counted failures, and the invocations made while HALF_OPEN.
FailRunAfter(o, n) ==
    CASE o = "ok" -> 0 [] o = "expected" -> n + 1 [] OTHER -> n

(***************************************************************************)
(* Parts of the state a specification does not use.                        *)
(***************************************************************************)
RetryIdle == max_attempts = 0 /\ attempt = 0 /\ last_exception = 0 /\ max_delay = 0
BotIdle ==
    /\ read_num = 0 /\ loop_attempt = 0 /\ success_count = 0 /\ last_time = 0
    /\ cookies = "none" /\ request_data = "none" /\ response = "none"
    /\ result = "none" /\ notification_enabled = FALSE
    /\ headers = "none" /\ base_cookies = "none"

\* the variables of the other specifications, unused
FleetIdle == fleet = <<>>
HashIdle ==
    input_string = <<>> /\ h1 = <<>> /\ h2 = <<>> /\ idx = 0 /\ digest = <<>>
CryptoIdle == args = <<>> /\ data = <<>> /\ encoded = <<>>
ExtIdle == FleetIdle /\ HashIdle /\ CryptoIdle

(***************************************************************************)
(* SpecCB: a CircuitBreaker and a sequence of calls through it.            *)
(***************************************************************************)
CBInit ==
    /\ pc = "idle" /\ now = 0
    /\ state = CLOSED /\ failure_count = 0 /\ last_failure_time = NoTime
    /\ failure_threshold \in 1..MaxThreshold
    /\ recovery_timeout \in 1..MaxTimeout
    /\ RetryIdle /\ BotIdle /\ ExtIdle
    /\ calls = 0 /\ last_call = "none" /\ fail_run = 0 /\ half_open_calls = 0
    /\ entered = NoEntry
    /\ invocations = 0 /\ sleeps = 0 /\ operation = <<>>
    /\ outcome = "none" /\ history = <<>> /\ run = "none"

\* a variant in which a rejected call restarts the cooldown
OnRejected_RestartsCooldown(st, fc, lft, t) ==
    [state |-> st, failure_count |-> fc, last_failure_time |-> t]

\* _call_with_circuit_breaker, lines 135-142: CircuitBreakerError is raised before
\* any field is assigned
OnRejected(st, fc, lft, t) ==
    [state |-> st, failure_count |-> fc, last_failure_time |-> lft]

\* _call_with_circuit_breaker, lines 135-142: rejected by the gate
CBCallRejected ==
    /\ pc = "idle" /\ calls < MaxCalls
    /\ GateRejects(state, last_failure_time, now, recovery_timeout)
    /\ LET after == OnRejected(state, failure_count, last_failure_time, now)
       IN /\ state' = after.state
          /\ failure_count' = after.failure_count
          /\ last_failure_time' = after.last_failure_time
    /\ calls' = calls + 1
    /\ last_call' = "rejected"
    /\ UNCHANGED <<pc, now, failure_threshold, recovery_timeout, retryVars, botVars,
                   fail_run, half_open_calls, entered, retryObs, botObs>>
    /\ UNCHANGED <<sessionVars, extVars>>

\* _call_with_circuit_breaker, lines 135-145: the gate lets the call through and
\* the wrapped function is invoked
CBCallEnter ==
    /\ pc = "idle" /\ calls < MaxCalls
    /\ ~GateRejects(state, last_failure_time, now, recovery_timeout)
    /\ state' = GateState(state, last_failure_time, now, recovery_timeout)
    /\ half_open_calls' = IF state' = HALF_OPEN THEN half_open_calls + 1 ELSE 0
    /\ calls' = calls + 1
    /\ last_call' = "running"
    /\ entered' = [state |-> state, failure_count |-> failure_count,
                   last_failure_time |-> last_failure_time]
    /\ pc' = "in_call"
    /\ UNCHANGED <<now, failure_count, last_failure_time, failure_threshold,
                   recovery_timeout, retryVars, botVars, fail_run, retryObs,
                   botObs>>
    /\ UNCHANGED <<sessionVars, extVars>>

\* _call_with_circuit_breaker, lines 145-150: the wrapped function ends
CBCallReturn(o) ==
    /\ pc = "in_call"
    /\ LET after == AfterCall(o, state, failure_count, last_failure_time, now,
                              failure_threshold)
       IN /\ state' = after.state
          /\ failure_count' = after.failure_count
          /\ last_failure_time' = after.last_failure_time
          /\ half_open_calls' = IF after.state = HALF_OPEN THEN half_open_calls ELSE 0
    /\ fail_run' = FailRunAfter(o, fail_run)
    /\ last_call' = o
    /\ entered' = NoEntry
    /\ pc' = "idle"
    /\ UNCHANGED <<now, failure_threshold, recovery_timeout, retryVars, botVars,
                   calls, retryObs, botObs>>
    /\ UNCHANGED <<sessionVars, extVars>>

\* CircuitBreaker.reset (lines 180-185)
CBReset ==
    /\ pc = "idle" /\ last_call # "reset" /\ calls < MaxCalls
    /\ state' = CLOSED /\ failure_count' = 0 /\ last_failure_time' = NoTime
    /\ fail_run' = 0 /\ half_open_calls' = 0
    /\ last_call' = "reset"
    /\ UNCHANGED <<pc, now, failure_threshold, recovery_timeout, retryVars, botVars,
                   calls, entered, retryObs, botObs>>
    /\ UNCHANGED <<sessionVars, extVars>>

\* time passes, between calls or while the wrapped function runs
CBTick ==
    /\ now < MaxClock
    /\ now' = now + 1
    /\ UNCHANGED <<pc, cbVars, retryVars, botVars, cbObs, retryObs, botObs>>
    /\ UNCHANGED <<sessionVars, extVars>>

CBNext ==
    \/ CBCallRejected
    \/ CBCallEnter
    \/ \E o \in CallOutcomes : CBCallReturn(o)
    \/ CBReset
    \/ CBTick

SpecCB == CBInit /\ [][CBNext]_vars

(***************************************************************************)
(* retry_with_backoff (retry.py:31-91)                                     *)
(***************************************************************************)
BaseDelay     == 1      \* base_delay
MaxDelay      == 60     \* max_delay
BackoffFactor == 2      \* backoff_factor

\* the values of max_delay SpecRetry builds a wrapper with: the default, and one
\* small enough for the cap to apply from the second sleep on
MaxDelays == {BaseDelay, MaxDelay}

RECURSIVE Pow(_, _)
Pow(b, e) == IF e = 0 THEN 1 ELSE b * Pow(b, e - 1)

Min(a, b) == IF a <= b THEN a ELSE b

\* a variant without the cap
NominalDelay_Uncapped(att) == BaseDelay * Pow(BackoffFactor, att)

\* line 68: delay = min(base_delay * (backoff_factor ** attempt), max_delay)
NominalDelay(att) == Min(BaseDelay * Pow(BackoffFactor, att), max_delay)

\* lines 69-70, 81: with jitter the sleep lasts between half the nominal delay and
\* the nominal delay; the clock of whole seconds advances by one of these amounts
JitteredDelays(att) == (NominalDelay(att) \div 2) .. NominalDelay(att)

\* What one invocation of the wrapped operation can do, as the wrapper sees it:
\* return, raise an exception of `exceptions`, raise another exception.
OpResults == {"ok", "retryable", "other"}

RetryStep_RetriesOther(o, att, maxAtt) ==
    CASE o = "ok" -> "return"
      [] OTHER    -> IF att = maxAtt - 1 THEN "raise" ELSE "sleep"

RetryStep_GivesUpEarly(o, att, maxAtt) ==
    CASE o = "ok"        -> "return"
      [] o = "retryable" -> IF att >= maxAtt - 2 THEN "raise" ELSE "sleep"
      [] OTHER           -> "raise"

\* a variant that makes one invocation more before it gives up
RetryStep_OneMore(o, att, maxAtt) ==
    CASE o = "ok"        -> "return"
      [] o = "retryable" -> IF att = maxAtt THEN "raise" ELSE "sleep"
      [] OTHER           -> "raise"

\* a variant that never retries
RetryStep_NoRetry(o, att, maxAtt) ==
    CASE o = "ok" -> "return"
      [] OTHER    -> "raise"

\* The body of the for loop (lines 58-85) after func ended with o in iteration att:
\* return its result, re-raise its exception, or sleep and go round again.
RetryStep(o, att, maxAtt) ==
    CASE o = "ok"        -> "return"
      [] o = "retryable" -> IF att = maxAtt - 1 THEN "raise" ELSE "sleep"
      [] OTHER           -> "raise"

\* the operations SpecRetry wraps: a result for each invocation that can happen
Operations == [1..(MaxRetryAttempts + 1) -> OpResults]

(***************************************************************************)
(* SpecRetry: one call of wrapper() around an operation.                   *)
(***************************************************************************)
CBIdle ==
    /\ state = CLOSED /\ failure_count = 0 /\ last_failure_time = NoTime
    /\ failure_threshold = 0 /\ recovery_timeout = 0
    /\ calls = 0 /\ last_call = "none" /\ fail_run = 0 /\ half_open_calls = 0
    /\ entered = NoEntry

RetryInit ==
    /\ pc = "r_call" /\ now = 0
    /\ max_attempts \in 1..MaxRetryAttempts
    /\ max_delay \in MaxDelays
    /\ attempt = 0 /\ last_exception = 0
    /\ operation \in Operations
    /\ invocations = 0 /\ sleeps = 0
    /\ outcome = "none" /\ history = <<>> /\ run = "none"
    /\ CBIdle /\ BotIdle /\ ExtIdle

\* wrapper, lines 57-65 and 82-85: func is invoked and returns or raises
RetryInvoke ==
    /\ pc = "r_call"
    /\ attempt < max_attempts
    /\ LET n    == invocations + 1
           o    == operation[n]
           step == RetryStep(o, attempt, max_attempts)
       IN /\ invocations' = n
          /\ last_exception' = IF o = "retryable" THEN n ELSE last_exception
          /\ CASE step = "return" ->
                    /\ outcome' = [kind |-> "returned", of |-> n]
                    /\ pc' = "r_done"
               [] step = "raise" ->
                    /\ outcome' = [kind |-> "raised", of |-> n]
                    /\ pc' = "r_done"
               [] OTHER ->
                    /\ outcome' = outcome
                    /\ pc' = "r_sleep"
    /\ UNCHANGED <<now, cbVars, max_attempts, max_delay, attempt, botVars, cbObs, sleeps,
                   operation, history, run>>
    /\ UNCHANGED <<sessionVars, extVars>>

\* wrapper, lines 67-81: the backoff sleep, then the next iteration
RetrySleep(d) ==
    /\ pc = "r_sleep"
    /\ now' = now + d
    /\ sleeps' = sleeps + 1
    /\ attempt' = attempt + 1
    /\ pc' = "r_call"
    /\ UNCHANGED <<cbVars, max_attempts, max_delay, last_exception, botVars, cbObs,
                   invocations,
                   operation, botObs>>
    /\ UNCHANGED <<sessionVars, extVars>>

\* Line 88 (raise last_exception after the loop) is reached only when the loop body
\* never runs, i.e. max_attempts <= 0; the repository decorates with max_attempts = 3
\* only (request_manager.py:87, pushers/base.py:51), so max_attempts >= 1 here and the
\* last iteration always returns or raises.
RetryNext ==
    \/ RetryInvoke
    \/ \E d \in JitteredDelays(attempt) : RetrySleep(d)

SpecRetry == RetryInit /\ [][RetryNext]_vars

(***************************************************************************)
(* RequestManager (request_manager.py) and WxReadBot (bot.py)              *)
(***************************************************************************)
ReadThreshold       == 5    \* failure_threshold of RequestManager.circuit_breaker
ReadRecoveryTimeout == 60   \* its recovery_timeout
PostJsonMaxAttempts == 3    \* max_attempts of the retry wrapper around post_json
SuccessSleep        == 30   \* time.sleep after a successful attempt
FailureSleep        == 5    \* time.sleep after a failed attempt
InitialGap          == 30   \* last_time = int(time.time()) - 30

ReadNum == 6            \* bound: READ_NUM, the attempts of one run

\* What one session.post to the read endpoint can come back with: a 2xx answer
\* with a JSON body, a 4xx/5xx status (raise_for_status), a body that is not JSON,
\* a connection error, a timeout.  Of a JSON body only succ and synckey are read.
ResponseKinds == {"json", "http_error", "bad_json", "conn_error", "timeout"}

NoResponse == [kind |-> "none", has_succ |-> FALSE, succ |-> 0, has_synckey |-> FALSE]

Responses ==
    { r \in [kind : {"json"}, has_succ : BOOLEAN, succ : {0, 1},
              has_synckey : BOOLEAN] : ~r.has_succ => r.succ = 0 }
    \cup
    { [kind |-> k, has_succ |-> FALSE, succ |-> 0, has_synckey |-> FALSE] :
          k \in ResponseKinds \ {"json"} }

PostJsonRaises_TransportOnly(resp) == resp.kind \in {"conn_error", "timeout"}

PostJsonRaises_RetriesSucc(resp) ==
    resp.kind # "json" \/ ~(resp.has_succ /\ resp.succ = 1)

\* post_json, lines 113-155: everything but a parsed JSON body ends as NetworkError
PostJsonRaises(resp) ==
    resp.kind \in {"http_error", "bad_json", "conn_error", "timeout"}

\* a variant in which a body that is not a Success is a failure of the call
PostJsonResult_NeedsSuccess(resp) ==
    IF PostJsonRaises(resp) \/ ~(resp.has_succ /\ resp.succ = 1 /\ resp.has_synckey)
    THEN "retryable" ELSE "ok"

\* post_json as the retry wrapper sees it (exceptions = (NetworkError,))
PostJsonResult(resp) == IF PostJsonRaises(resp) THEN "retryable" ELSE "ok"

ValidateResponse_AnySucc(resp) == resp.has_succ

\* CryptoUtils.validate_response (crypto.py:201-231)
ValidateResponse(resp) == resp.has_succ /\ resp.succ = 1

\* a variant that takes every valid response for a success
ReadOnceBranch_IgnoresSynckey(raised, resp) ==
    IF raised THEN "failed"
    ELSE IF ValidateResponse(resp) THEN "success" ELSE "refresh_cookie"

ReadOnceBranch_RenewsOnError(raised, resp) ==
    IF raised THEN "refresh_cookie"
    ELSE IF ValidateResponse(resp)
         THEN IF resp.has_synckey THEN "success" ELSE "fix_synckey"
         ELSE "refresh_cookie"

\* read_once, lines 198-220: the branch taken after read_book returned resp or raised
ReadOnceBranch(raised, resp) ==
    IF raised THEN "failed"
    ELSE IF ValidateResponse(resp)
         THEN IF resp.has_synckey THEN "success" ELSE "fix_synckey"
         ELSE "refresh_cookie"

\* read_once: the tuple (success, current_time, error) each branch returns
ReadOnceReturn(branch, ct, lt, refreshed) ==
    CASE branch = "success" ->
            [success |-> TRUE, current_time |-> ct, error |-> "None"]
      [] branch = "fix_synckey" ->
            [success |-> FALSE, current_time |-> lt, error |-> "missing synckey"]
      [] branch = "refresh_cookie" ->
            [success |-> FALSE, current_time |-> lt,
             error |-> IF refreshed THEN "cookie refreshed" ELSE "cookie refresh failed"]
      [] OTHER ->
            [success |-> FALSE, current_time |-> lt, error |-> "request failed"]

\* no request has been built / no record has been returned
NoRequest == [ct |-> 0, rt |-> 0]
NoResult  == [success_count |-> 0, total_attempts |-> 0,
              reading_half_minutes |-> 0, success_rate |-> <<0, 0>>]

NoOutcome == [success |-> FALSE, current_time |-> 0, error |-> "pending"]

ReadOnceCatches_NetworkErrorOnly(exc) == exc = "NetworkError"

\* read_once, line 217: except Exception catches NetworkError and CircuitBreakerError
ReadOnceCatches(exc) == exc \in {"NetworkError", "CircuitBreakerError"}

StartReadingAfter_CountsAll(ret, sc, lt) ==
    [success_count |-> sc + 1,
     last_time     |-> IF ret.success THEN ret.current_time ELSE lt]

StartReadingAfter_AlwaysAdvances(ret, sc, lt) ==
    [success_count |-> IF ret.success THEN sc + 1 ELSE sc,
     last_time     |-> request_data.ct]

\* start_reading, lines 251-253: the statistics after read_once returned ret
StartReadingAfter(ret, sc, lt) ==
    [success_count |-> IF ret.success THEN sc + 1 ELSE sc,
     last_time     |-> IF ret.success THEN ret.current_time ELSE lt]

\* What RequestManager.renew_cookie can give: an exception, None (no wr_skey in
\* Set-Cookie), or the first 8 characters after the last '=' (possibly none).
RenewResults == {"raises", "None", "", "skey_a"}

\* refresh_cookie, lines 139-157: `if new_skey`
RefreshOk(r) == r \notin {"raises", "None", ""}

CookiesAfterRenewal_Discards(r, old) == old

\* a variant that stores whatever renew_cookie returned
CookiesAfterRenewal_StoresAny(r, old) == IF r = "raises" THEN old ELSE r

\* refresh_cookie, lines 139-146: a key that was returned replaces wr_skey
CookiesAfterRenewal(r, old) == IF RefreshOk(r) THEN r ELSE old

LoopContinues_OffByOne(att, n) == att + 1 < n

\* start_reading, line 239: for attempt in range(1, self.read_num + 1)
LoopContinues(att, n) == att + 1 <= n

InitialRenewalFatal_Ignored(ok) == FALSE

\* start_reading, lines 232-233
InitialRenewalFatal(ok) == ~ok

\* RequestManager.fix_synckey: True, or False after a non-2xx status or an exception
FixResults == {"ok", "http_error", "raises"}

\* RequestManager.fix_synckey, lines 242-262: the value returned
FixSynckeyReturn(f) == IF f = "ok" THEN "True" ELSE "False"

FixEscapes_Raises(f) == f = "raises"

\* WxReadBot.fix_synckey, lines 166-173, around RequestManager.fix_synckey, lines
\* 242-262: both catch Exception
FixEscapes(f) == FALSE

\* NotificationManager.send: True, False, or PushError
NotifyResults == {"ok", "false", "raises"}

ErrorNotes_Silent(ok, enabled) == 0

\* refresh_cookie, lines 146-157, with _send_error_notification (lines 296-304):
\* the error notifications one renewal sends
ErrorNotes(ok, enabled) == IF ~ok /\ enabled THEN 1 ELSE 0

\* what became of the notification: not sent, or the result of send
NoteResult(sent, n) == IF sent THEN n ELSE "none"

NotifyEscapes_Raises(n) == n = "raises"

\* _send_completion_notification, lines 290-294, _send_error_notification, lines
\* 300-304: send is called inside try / except Exception
NotifyEscapes(n) == FALSE

\* start_reading, lines 265-271: the record returned.  reading_minutes =
\* success_count * 0.5 is kept in half minutes, success_rate = success_count /
\* read_num * 100 as the fraction <<success_count * 100, read_num>>.
StatisticsRecord(sc, n) ==
    [success_count |-> sc, total_attempts |-> n,
     reading_half_minutes |-> sc, success_rate |-> <<sc * 100, n>>]

\* what an iteration has done, before it starts
BlankAttempt ==
    [posts |-> 0, exception |-> "None", renewals |-> 0, repairs |-> 0,
     error_notes |-> 0, note |-> "none", repair |-> "none", repaired |-> "none"]

\* the ct of the latest attempt whose response was a Success
AcceptedAfter(resp, ct, old) ==
    IF resp.kind = "json" /\ resp.has_succ /\ resp.succ = 1 /\ resp.has_synckey
    THEN ct ELSE old

(***************************************************************************)
(* Spec: one run of WxReadBot.start_reading.                               *)
(*                                                                         *)
(* The clock.  The program uses clock readings only through differences    *)
(* (rt = ct - last_time, now - last_failure_time >= recovery_timeout), so  *)
(* the origin of the clock is arbitrary: each loop iteration starts with   *)
(* the clock reading Epoch, and the readings kept from earlier iterations  *)
(* (last_time, last_failure_time) are carried over with their distance to  *)
(* the present unchanged.  Network calls take no time on the clock of      *)
(* whole seconds; time.sleep does, and in Spec a backoff sleep lasts its   *)
(* nominal delay (SpecRetry follows the jitter, which changes nothing but  *)
(* the length of the sleep).                                               *)
(***************************************************************************)
Epoch == 300            \* bound: the clock reading at the start of an iteration

\* a kept clock reading t, when the origin moves by shift
Carried(t, shift) == IF t = NoTime THEN NoTime ELSE t - shift

\* _get_default_headers (bot.py:111-118) and _get_default_cookies (bot.py:120-127):
\* a fresh mapping at every call, so each WxReadBot has its own
DefaultHeaders ==
    [accept |-> "application/json, text/plain, */*",
     accept_language |-> "zh-CN,zh;q=0.9,en;q=0.8",
     content_type |-> "application/json",
     user_agent |-> "Mozilla/5.0"]

DefaultCookies ==
    [RK |-> "oxEY1bTnXf", ptcz |-> "53e3b35a", pac_uid |-> "0_e63870bcecc18", iip |-> "0"]

\* The state in which start_reading is called.  run.posts counts the invocations
\* of post_json in the run when it starts at 0 (SpecLive); started at -1 it is
\* not kept (Spec).
InitState(posts) ==
    /\ pc = "init" /\ now = Epoch
    /\ headers = DefaultHeaders /\ base_cookies = DefaultCookies /\ ExtIdle
    /\ state = CLOSED /\ failure_count = 0 /\ last_failure_time = NoTime
    /\ failure_threshold = ReadThreshold
    /\ recovery_timeout = ReadRecoveryTimeout
    /\ max_attempts = PostJsonMaxAttempts /\ attempt = 0 /\ last_exception = 0
    /\ max_delay = MaxDelay
    /\ read_num = ReadNum /\ loop_attempt = 0 /\ success_count = 0 /\ last_time = 0
    /\ cookies = "none" /\ request_data = NoRequest /\ response = NoResponse
    /\ result = NoResult /\ notification_enabled \in BOOLEAN
    /\ calls = 0 /\ last_call = "none" /\ fail_run = 0 /\ half_open_calls = 0
    /\ entered = NoEntry
    /\ invocations = 0 /\ sleeps = 0 /\ operation = <<>>
    /\ outcome = NoOutcome
    /\ history = BlankAttempt
    /\ run = [renewed |-> "pending", read_sent |-> FALSE, accepted_ct |-> 0,
              attempts |-> 0, successes |-> 0, completion_notes |-> 0,
              posts |-> posts, failed_posts |-> 0]

Init == InitState(-1)

\* the steps that leave the breaker alone
CBUnchanged == UNCHANGED <<cbVars, cbObs>>

\* a variant in which a failed renewal or repair request counts as a failure of
\* the read breaker
SessionPostBreaker_Counts(failed, st, fc, lft, t, threshold) ==
    IF failed THEN OnFailure(st, fc, lft, t, threshold)
    ELSE [state |-> st, failure_count |-> fc, last_failure_time |-> lft]

\* renew_cookie (request_manager.py:196-224) and fix_synckey (242-262) call
\* self.session.post themselves, not through self.circuit_breaker and not through
\* post_json: the fields of the read breaker after such a request
SessionPostBreaker(failed, st, fc, lft, t, threshold) ==
    [state |-> st, failure_count |-> fc, last_failure_time |-> lft]

\* the breaker across a renewal or repair request
SessionPost(failed) ==
    LET cb == SessionPostBreaker(failed, state, failure_count, last_failure_time, now,
                                 failure_threshold)
    IN /\ state' = cb.state
       /\ failure_count' = cb.failure_count
       /\ last_failure_time' = cb.last_failure_time
       /\ UNCHANGED <<failure_threshold, recovery_timeout, cbObs>>

\* start_reading, lines 229-237, with refresh_cookie (lines 129-157)
StartReading(r, n) ==
    /\ pc = "init"
    /\ cookies' = CookiesAfterRenewal(r, cookies)
    /\ LET sent == ErrorNotes(RefreshOk(r), notification_enabled) = 1
       IN /\ history' = [BlankAttempt EXCEPT
                            !.renewals = 1,
                            !.error_notes = ErrorNotes(RefreshOk(r), notification_enabled),
                            !.note = NoteResult(sent, n)]
          /\ IF sent /\ NotifyEscapes(n)
             THEN /\ pc' = "raised"
                  /\ outcome' = [success |-> FALSE, current_time |-> 0,
                                 error |-> "PushError"]
                  /\ UNCHANGED <<success_count, last_time, loop_attempt>>
             ELSE IF InitialRenewalFatal(RefreshOk(r))
             THEN /\ pc' = "aborted"
                  /\ outcome' = [success |-> FALSE, current_time |-> 0,
                                 error |-> "AuthError"]
                  /\ UNCHANGED <<success_count, last_time, loop_attempt>>
             ELSE /\ pc' = "loop"
                  /\ success_count' = 0
                  /\ last_time' = now - InitialGap
                  /\ loop_attempt' = 1
                  /\ UNCHANGED outcome
    /\ run' = [run EXCEPT !.renewed = IF RefreshOk(r) THEN "ok" ELSE "failed",
                          !.accepted_ct = now - InitialGap]
    /\ SessionPost(r = "raises")
    /\ UNCHANGED <<now, retryVars, read_num, request_data, response, result,
                   notification_enabled, retryObs>>
    /\ UNCHANGED <<sessionVars, extVars>>

\* The start of an iteration (line 239) and of read_once (lines 187-191): the
\* clock reads Epoch and create_request_data takes ct from it.
BeginAttempt ==
    LET shift == now - Epoch
    IN /\ pc = "loop" /\ loop_attempt <= read_num
       /\ now' = Epoch
       /\ last_time' = Carried(last_time, shift)
       /\ last_failure_time' = Carried(last_failure_time, shift)
       /\ request_data' = [ct |-> Epoch, rt |-> Epoch - Carried(last_time, shift)]
       /\ run' = [run EXCEPT !.attempts = @ + 1,
                             !.accepted_ct = Carried(@, shift)]
       /\ outcome' = NoOutcome
       /\ calls' = calls + 1

\* read_book (request_manager.py:174) while the breaker rejects:
\* CircuitBreakerError is raised, no POST is sent
ReadOnceRejected ==
    /\ BeginAttempt
    /\ GateRejects(state, last_failure_time, now, recovery_timeout)
    /\ last_call' = "rejected"
    /\ history' = [BlankAttempt EXCEPT !.exception = "CircuitBreakerError"]
    /\ pc' = "failed"
    /\ UNCHANGED <<state, failure_count, failure_threshold, recovery_timeout,
                   retryVars, read_num, loop_attempt, success_count, cookies, response,
                   result, notification_enabled, fail_run, half_open_calls, entered,
                   retryObs>>
    /\ UNCHANGED <<sessionVars, extVars>>

\* read_book: the breaker lets the call through and the retry wrapper starts
ReadOnceSubmit ==
    /\ BeginAttempt
    /\ ~GateRejects(state, last_failure_time, now, recovery_timeout)
    /\ state' = GateState(state, last_failure_time, now, recovery_timeout)
    /\ half_open_calls' = IF state' = HALF_OPEN THEN half_open_calls + 1 ELSE 0
    /\ last_call' = "running"
    /\ entered' = [state |-> state, failure_count |-> failure_count,
                   last_failure_time |-> last_failure_time']
    /\ attempt' = 0 /\ last_exception' = 0
    /\ invocations' = 0 /\ sleeps' = 0
    /\ history' = BlankAttempt
    /\ pc' = "post"
    /\ UNCHANGED <<failure_count, failure_threshold, recovery_timeout, max_attempts,
                   max_delay,
                   read_num, loop_attempt, success_count, cookies, response, result,
                   notification_enabled, fail_run, operation>>
    /\ UNCHANGED <<sessionVars, extVars>>

\* One invocation of post_json (lines 113-155) inside the retry wrapper (retry.py
\* lines 57-85) inside the breaker (retry.py lines 144-150): the POST is sent and
\* resp comes back.  The wrapper sleeps and retries, or the call ends: with a
\* result (breaker: _on_success), or with NetworkError (breaker: _on_failure).
PostJson(resp) ==
    /\ pc = "post"
    /\ response' = resp
    /\ run' = [run EXCEPT !.read_sent = TRUE,
                          !.accepted_ct = AcceptedAfter(resp, request_data.ct, @),
                          !.successes = IF AcceptedAfter(resp, 1, 0) = 1 THEN @ + 1
                                        ELSE @,
                          \* invocations of post_json in the run, and those that
                          \* raised since the latest one that returned
                          !.posts = IF @ < 0 THEN @ ELSE @ + 1,
                          !.failed_posts = IF PostJsonRaises(resp) THEN @ + 1 ELSE 0]
    /\ LET o    == PostJsonResult(resp)
           step == RetryStep(o, attempt, max_attempts)
           cb   == AfterCall(IF o = "ok" THEN "ok" ELSE "expected", state,
                             failure_count, last_failure_time, now, failure_threshold)
       IN IF step = "sleep"
          THEN /\ pc' = "backoff"
               /\ invocations' = invocations + 1
               /\ last_exception' = invocations + 1
               /\ history' = [history EXCEPT !.posts = @ + 1]
               /\ UNCHANGED <<cbVars, fail_run, last_call, half_open_calls, entered,
                              attempt, sleeps>>
          ELSE /\ state' = cb.state
               /\ failure_count' = cb.failure_count
               /\ last_failure_time' = cb.last_failure_time
               /\ fail_run' = FailRunAfter(IF o = "ok" THEN "ok" ELSE "expected", fail_run)
               /\ half_open_calls' = 0
               /\ entered' = NoEntry
               /\ last_call' = IF o = "ok" THEN "ok" ELSE "expected"
               /\ pc' = IF step = "return" THEN "returned" ELSE "failed"
               /\ history' = [history EXCEPT
                                 !.posts = @ + 1,
                                 !.exception = IF step = "return" THEN "None"
                                               ELSE "NetworkError"]
               \* the wrapper's locals end with the call
               /\ attempt' = 0 /\ last_exception' = 0
               /\ invocations' = 0 /\ sleeps' = 0
               /\ UNCHANGED <<failure_threshold, recovery_timeout>>
    /\ UNCHANGED <<now, max_attempts, max_delay, read_num, loop_attempt, success_count,
                   last_time,
                   cookies, request_data, result, notification_enabled, calls,
                   operation, outcome>>
    /\ UNCHANGED <<sessionVars, extVars>>

\* retry.py lines 67-81: the backoff sleep between two invocations of post_json
BackoffSleep(d) ==
    /\ pc = "backoff"
    /\ now' = now + d
    /\ attempt' = attempt + 1
    /\ sleeps' = sleeps + 1
    /\ response' = NoResponse
    /\ pc' = "post"
    /\ CBUnchanged
    /\ UNCHANGED <<max_attempts, max_delay, last_exception, read_num, loop_attempt,
                   success_count,
                   last_time, cookies, request_data, result, notification_enabled,
                   invocations, operation, botObs>>
    /\ UNCHANGED <<sessionVars, extVars>>

\* the branch read_once takes (lines 198-220) once read_book has returned or raised
Branch == ReadOnceBranch(pc = "failed", response)

\* a variant that sleeps the short delay after every attempt
SleepAfter_AlwaysShort(ret) == FailureSleep

\* start_reading, lines 251-263: time.sleep(30) in the `if success` branch,
\* time.sleep(5) in the else branch
SleepAfter(ret) == IF ret.success THEN SuccessSleep ELSE FailureSleep

\* The end of read_once and the rest of the iteration (start_reading, lines
\* 247-263): the statistics, then time.sleep(30) or time.sleep(5).
EndIteration(ret) ==
    LET upd == StartReadingAfter(ret, success_count, last_time)
    IN /\ outcome' = ret
       /\ success_count' = upd.success_count
       /\ last_time' = upd.last_time
       /\ now' = now + SleepAfter(ret)
       /\ loop_attempt' = loop_attempt + 1
       /\ pc' = IF LoopContinues(loop_attempt, read_num) THEN "loop" ELSE "finish"
       /\ request_data' = NoRequest
       /\ response' = NoResponse

\* an exception leaves read_once: start_reading raises
Escapes(exc) ==
    /\ outcome' = [success |-> FALSE, current_time |-> 0, error |-> exc]
    /\ pc' = "raised"
    /\ UNCHANGED <<success_count, last_time, now, loop_attempt, request_data, response>>

\* read_once, lines 199-203: the response is valid and has a synckey
ReadOnceSuccess ==
    /\ pc \in {"returned", "failed"}
    /\ Branch = "success"
    /\ EndIteration(ReadOnceReturn("success", request_data.ct, last_time, FALSE))
    /\ history' = [BlankAttempt EXCEPT !.posts = history.posts]
    /\ CBUnchanged
    /\ UNCHANGED <<retryVars, read_num, cookies, result, notification_enabled,
                   retryObs, run>>
    /\ UNCHANGED <<sessionVars, extVars>>

\* read_once, lines 204-208, with fix_synckey (lines 159-173): valid, no synckey
ReadOnceFixSynckey(f) ==
    /\ pc \in {"returned", "failed"}
    /\ Branch = "fix_synckey"
    /\ history' = [BlankAttempt EXCEPT !.posts = history.posts, !.repairs = 1,
                                       !.repair = f,
                                       !.repaired = FixSynckeyReturn(f)]
    /\ IF FixEscapes(f)
       THEN Escapes("Exception")
       ELSE EndIteration(ReadOnceReturn("fix_synckey", request_data.ct, last_time,
                                        FALSE))
    /\ SessionPost(f # "ok")
    /\ UNCHANGED <<retryVars, read_num, cookies, result, notification_enabled,
                   retryObs, run>>
    /\ UNCHANGED <<sessionVars, extVars>>

\* read_once, lines 209-215, with refresh_cookie (lines 129-157): not valid
ReadOnceRefresh(r, n) ==
    /\ pc \in {"returned", "failed"}
    /\ Branch = "refresh_cookie"
    /\ cookies' = CookiesAfterRenewal(r, cookies)
    /\ LET sent == ErrorNotes(RefreshOk(r), notification_enabled) = 1
       IN /\ history' = [BlankAttempt EXCEPT
                            !.posts = history.posts,
                            !.renewals = 1,
                            !.error_notes = ErrorNotes(RefreshOk(r), notification_enabled),
                            !.note = NoteResult(sent, n)]
          /\ IF sent /\ NotifyEscapes(n)
             THEN Escapes("PushError")
             ELSE EndIteration(ReadOnceReturn("refresh_cookie", request_data.ct,
                                              last_time, RefreshOk(r)))
    /\ SessionPost(r = "raises")
    /\ UNCHANGED <<retryVars, read_num, result, notification_enabled, retryObs, run>>
    /\ UNCHANGED <<sessionVars, extVars>>

\* read_once, lines 217-220: read_book raised (NetworkError once the retries are
\* exhausted, CircuitBreakerError from the gate)
ReadOnceFailed ==
    /\ pc \in {"returned", "failed"}
    /\ Branch = "failed"
    /\ history' = [BlankAttempt EXCEPT !.posts = history.posts,
                                       !.exception = history.exception]
    /\ IF ReadOnceCatches(history.exception)
       THEN EndIteration(ReadOnceReturn("failed", request_data.ct, last_time, FALSE))
       ELSE Escapes(history.exception)
    /\ CBUnchanged
    /\ UNCHANGED <<retryVars, read_num, cookies, result, notification_enabled,
                   retryObs, run>>
    /\ UNCHANGED <<sessionVars, extVars>>

\* start_reading, lines 265-279, with _send_completion_notification (lines 281-294);
\* reading_minutes = success_count * 0.5 is kept in half minutes, success_rate as
\* the fraction success_count * 100 / read_num
Complete(n) ==
    /\ pc = "finish"
    /\ run' = [run EXCEPT !.completion_notes =
                              IF notification_enabled THEN @ + 1 ELSE @]
    /\ history' = [history EXCEPT !.note = NoteResult(notification_enabled, n)]
    /\ IF notification_enabled /\ NotifyEscapes(n)
       THEN /\ pc' = "raised"
            /\ outcome' = [success |-> FALSE, current_time |-> 0, error |-> "PushError"]
            /\ UNCHANGED result
       ELSE /\ pc' = "done"
            /\ result' = StatisticsRecord(success_count, read_num)
            /\ UNCHANGED outcome
    /\ CBUnchanged
    /\ UNCHANGED <<now, retryVars, read_num, loop_attempt, success_count, last_time,
                   cookies, request_data, response, notification_enabled, retryObs>>
    /\ UNCHANGED <<sessionVars, extVars>>

\* KeyboardInterrupt (Ctrl-C, or the default SIGINT handler) arrives while a read
\* request is in flight, during a backoff sleep (retry.py:81) or during the sleep
\* between two attempts (bot.py:259, 263; the state is that after the sleep).  It
\* is a BaseException: no `except Exception` of read_once (line 217), post_json, the
\* retry wrapper or the breaker catches it, start_reading has no handler, and it
\* reaches main_new_version (main.py:154-156), which logs and returns.
Interrupt ==
    /\ pc \in {"post", "backoff", "loop"}
    /\ pc' = "interrupted"
    /\ outcome' = [success |-> FALSE, current_time |-> 0, error |-> "KeyboardInterrupt"]
    /\ entered' = NoEntry
    /\ UNCHANGED <<now, cbVars, retryVars, botVars, calls, last_call, fail_run,
                   half_open_calls, retryObs, history, run>>
    /\ UNCHANGED <<sessionVars, extVars>>

Next ==
    \/ \E r \in RenewResults, n \in NotifyResults : StartReading(r, n)
    \/ ReadOnceRejected
    \/ ReadOnceSubmit
    \/ \E resp \in Responses : PostJson(resp)
    \/ \E d \in {NominalDelay(attempt)} : BackoffSleep(d)
    \/ ReadOnceSuccess
    \/ \E f \in FixResults : ReadOnceFixSynckey(f)
    \/ \E r \in RenewResults, n \in NotifyResults : ReadOnceRefresh(r, n)
    \/ ReadOnceFailed
    \/ \E n \in NotifyResults : Complete(n)
    \/ Interrupt

Spec == Init /\ [][Next]_vars

(***************************************************************************)
(* SpecLive: a run of start_reading in which every network call and every  *)
(* sleep returns: no KeyboardInterrupt arrives, and the step the program   *)
(* is at is eventually taken (the loop is sequential: at most one of its   *)
(* steps is enabled, with several possible results).                       *)
(***************************************************************************)
LiveInit == InitState(0)

LiveNext ==
    \/ \E r \in RenewResults, n \in NotifyResults : StartReading(r, n)
    \/ ReadOnceRejected
    \/ ReadOnceSubmit
    \/ \E resp \in Responses : PostJson(resp)
    \/ \E d \in {NominalDelay(attempt)} : BackoffSleep(d)
    \/ ReadOnceSuccess
    \/ \E f \in FixResults : ReadOnceFixSynckey(f)
    \/ \E r \in RenewResults, n \in NotifyResults : ReadOnceRefresh(r, n)
    \/ ReadOnceFailed
    \/ \E n \in NotifyResults : Complete(n)

SpecLive == LiveInit /\ [][LiveNext]_vars /\ WF_vars(LiveNext)

(***************************************************************************)
(* C1. CircuitBreaker: once failure_threshold calls in a row have failed   *)
(* with the expected exception and no successful call in between (a manual *)
(* reset() starts a new run), the state is OPEN right after the last of    *)
(* them; and a call made while the state is OPEN and fewer than            *)
(* recovery_timeout seconds have passed since the last counted failure     *)
(* raises CircuitBreakerError without invoking the wrapped function.       *)
(***************************************************************************)
C1_OpensAndRejects ==
    [][ /\ (pc = "in_call" /\ pc' = "idle" /\ last_call' = "expected"
               /\ fail_run' >= failure_threshold)
            => state' = OPEN
        /\ (pc = "idle" /\ calls' = calls + 1 /\ state = OPEN
               /\ last_failure_time # NoTime
               /\ now - last_failure_time < recovery_timeout)
            => (last_call' = "rejected" /\ pc' = "idle" /\ state' = OPEN
                /\ half_open_calls' = half_open_calls) ]_vars

\* the breaker has just opened on the threshold-th failure in a row, and a later
\* call inside the cooldown has been rejected
C1_Witness ==
    /\ state = OPEN /\ fail_run >= failure_threshold /\ failure_threshold = MaxThreshold
    /\ last_call = "rejected" /\ now - last_failure_time < recovery_timeout

(***************************************************************************)
(* C2. CircuitBreaker: after the cooldown exactly one call is let through  *)
(* as the HALF_OPEN probe, when that call ends the breaker is CLOSED or    *)
(* OPEN, and no second call reaches the wrapped function while the breaker *)
(* is still HALF_OPEN.                                                     *)
(***************************************************************************)
C2_SingleProbe ==
    /\ (pc = "idle" => state \in {CLOSED, OPEN})
    /\ (state = HALF_OPEN => half_open_calls <= 1)

(***************************************************************************)
(* C3. retry_with_backoff: an operation that raises a retryable exception  *)
(* k times (k < max_attempts) and then succeeds is invoked exactly k+1     *)
(* times and the wrapper returns its result; an operation that always      *)
(* raises a retryable exception is invoked exactly max_attempts times and  *)
(* the wrapper then propagates the last exception.                         *)
(***************************************************************************)
FailsThenSucceeds(op, k) ==
    /\ \A i \in 1..k : op[i] = "retryable"
    /\ op[k + 1] = "ok"

AlwaysFails(op) == \A i \in DOMAIN op : op[i] = "retryable"

C3_RetryCounts ==
    pc = "r_done" =>
       /\ \A k \in 0..(max_attempts - 1) :
             FailsThenSucceeds(operation, k) =>
                 /\ outcome = [kind |-> "returned", of |-> k + 1]
                 /\ invocations = k + 1
       /\ AlwaysFails(operation) =>
                 /\ outcome = [kind |-> "raised", of |-> max_attempts]
                 /\ invocations = max_attempts

\* two failures, then the third invocation succeeded and its result was returned
C3_Witness ==
    /\ pc = "r_done" /\ max_attempts = 3
    /\ FailsThenSucceeds(operation, 2)
    /\ invocations = 3 /\ outcome.kind = "returned"


(***************************************************************************)
(* Claims about one run of start_reading (Spec)                            *)
(***************************************************************************)
\* the body read_once counts: JSON with succ == 1 and a synckey
IsSuccessBody(resp) ==
    resp.kind = "json" /\ resp.has_succ /\ resp.succ = 1 /\ resp.has_synckey

\* a parsed JSON body that does not pass validate_response
IsInvalidBody(resp) ==
    resp.kind = "json" /\ ~(resp.has_succ /\ resp.succ = 1)

\* the step that sends one POST and gets response' back
Posts == pc = "post" /\ pc' # "post"

\* the step that ends read_once and the iteration
IterationEnds == pc \in {"returned", "failed"} /\ pc' \in {"loop", "finish"}

(***************************************************************************)
(* C4. last_time changes only in an iteration whose attempt was a Success, *)
(* where it becomes the ct of that attempt's request; after any other      *)
(* attempt (missing synckey, failed validation, NetworkError,              *)
(* CircuitBreakerError) it is what it was before the attempt.  So at every *)
(* attempt last_time is the ct of the most recent successful attempt, or   *)
(* the initial value, and rt is computed from it.                          *)
(***************************************************************************)
C4_LastTime ==
    [][ /\ IterationEnds =>
              last_time' = IF IsSuccessBody(response) THEN request_data.ct
                           ELSE last_time
        /\ pc' \in {"loop", "finish"} => last_time' = run'.accepted_ct
        /\ (pc = "loop" /\ pc' \notin {"loop", "interrupted"}) =>
              /\ now' - last_time' = now - last_time
              /\ request_data'.rt = request_data'.ct - last_time'
              /\ request_data'.ct = now' ]_vars

\* one success, then an attempt whose renewal failed: last_time still is the ct
\* of the success
C4_Witness ==
    /\ pc = "loop" /\ success_count = 1 /\ loop_attempt = 3
    /\ outcome.error = "cookie refresh failed"
    /\ last_time = run.accepted_ct
    /\ now - last_time = SuccessSleep + FailureSleep

(***************************************************************************)
(* C5. Once the initial renewal has succeeded, start_reading never raises  *)
(* because of an attempt's outcome: whatever the outcomes are, it makes    *)
(* exactly READ_NUM attempts and returns the statistics record.            *)
(***************************************************************************)
C5_RunCompletes ==
    /\ run.renewed = "ok" => pc \notin {"raised", "aborted"}
    /\ run.attempts <= read_num
    /\ pc \in {"finish", "done"} => run.attempts = read_num
    /\ pc = "done" => /\ result.total_attempts = read_num
                      /\ result.success_count = success_count
    /\ pc \notin {"done", "aborted", "interrupted"} => ENABLED Next

\* a run that returned its record although its last attempt was rejected by the
\* open breaker
C5_Witness ==
    /\ pc = "done" /\ run.renewed = "ok"
    /\ history.exception = "CircuitBreakerError"
    /\ result.total_attempts = read_num

(***************************************************************************)
(* C6. If the initial renewal fails (no key, or an exception), the run     *)
(* aborts with AuthError before any read submission: no request reaches    *)
(* the read endpoint and no statistics record is returned.                 *)
(***************************************************************************)
C6_InitialRenewalFails ==
    /\ run.renewed = "failed" =>
          /\ pc = "aborted"
          /\ outcome.error = "AuthError"
          /\ ~run.read_sent /\ run.attempts = 0
          /\ result = NoResult
    /\ pc = "aborted" => run.renewed = "failed"

C6_Witness ==
    /\ pc = "aborted" /\ run.renewed = "failed"
    /\ cookies = "none" /\ history.renewals = 1

(***************************************************************************)
(* C7. As claimed: a read submission that gets a non-2xx status, a body    *)
(* that is not JSON, or a JSON body with succ != 1 makes the attempt renew *)
(* the session and is not retried as a transient failure.                  *)
(***************************************************************************)
C7_AsClaimed ==
    [][ /\ (Posts /\ (response'.kind \in {"http_error", "bad_json"}
                      \/ IsInvalidBody(response'))) => pc' = "returned"
        /\ (IterationEnds /\ (response.kind \in {"http_error", "bad_json"}
                              \/ IsInvalidBody(response))) =>
              history'.renewals = 1 ]_vars

(***************************************************************************)
(* C7, amended.  Only a parsed JSON body without succ == 1 makes the       *)
(* attempt renew the session, and it is not retried.  A non-2xx status or  *)
(* a body that is not JSON raises NetworkError: the submission is retried  *)
(* as a transient failure (3 invocations of post_json at most), and if the *)
(* last one fails too the attempt fails without a renewal.                 *)
(***************************************************************************)
C7_Classification ==
    [][ /\ (Posts /\ IsInvalidBody(response')) => pc' = "returned"
        /\ (IterationEnds /\ IsInvalidBody(response)) =>
              /\ history'.renewals = 1
              /\ outcome'.error \in {"cookie refreshed", "cookie refresh failed"}
        /\ (Posts /\ response'.kind \in {"http_error", "bad_json"}) =>
              /\ history'.posts <= PostJsonMaxAttempts
              /\ pc' = IF history'.posts < PostJsonMaxAttempts
                       THEN "backoff" ELSE "failed"
        /\ (IterationEnds /\ response.kind \in {"http_error", "bad_json"}) =>
              /\ history'.renewals = 0
              /\ cookies' = cookies
              /\ outcome'.error = "request failed" ]_vars

\* a 4xx/5xx answer or an unparsable body, about to be retried
C7_Witness ==
    /\ pc = "backoff"
    /\ response.kind \in {"http_error", "bad_json"}
    /\ history.posts = 2 /\ history.renewals = 0

(***************************************************************************)
(* C8. An attempt is counted as a success if and only if the submission    *)
(* returned a JSON body with succ == 1 and a synckey; succ == 1 without a  *)
(* synckey is never counted.                                               *)
(***************************************************************************)
C8_SuccessCounted ==
    [][ IterationEnds =>
          /\ outcome'.success <=> IsSuccessBody(response)
          /\ success_count' = IF IsSuccessBody(response) THEN success_count + 1
                              ELSE success_count ]_vars

\* a counted success followed by succ == 1 without synckey, not counted
C8_Witness ==
    /\ pc = "loop" /\ loop_attempt = 3 /\ success_count = 1
    /\ outcome.error = "missing synckey" /\ history.repairs = 1

C10_Transient ==
    [][ /\ (Posts /\ response'.kind \in {"conn_error", "timeout"}) =>
              /\ history'.posts <= PostJsonMaxAttempts
              /\ IF history'.posts < PostJsonMaxAttempts
                 THEN pc' = "backoff"
                 ELSE pc' = "failed" /\ history'.exception = "NetworkError"
        /\ (pc \in {"returned", "failed"}
            /\ response.kind \in {"conn_error", "timeout"}) =>
              /\ pc' \in {"loop", "finish"}
              /\ history'.posts = PostJsonMaxAttempts
              /\ history'.renewals = 0 /\ history'.repairs = 0
              /\ cookies' = cookies
              /\ ~outcome'.success /\ outcome'.error = "request failed"
              /\ success_count' = success_count
              /\ loop_attempt' = loop_attempt + 1 ]_vars

C10_Witness ==
    /\ pc = "failed" /\ history.posts = PostJsonMaxAttempts
    /\ response.kind \in {"conn_error", "timeout"}
    /\ history.exception = "NetworkError"


(***************************************************************************)
(* C11. The breaker gates outside the retry loop: when read_book is called *)
(* while the breaker is OPEN and the cooldown has not elapsed,             *)
(* CircuitBreakerError is raised before post_json is entered: no POST is   *)
(* sent, no backoff sleep is made, and the attempt is recorded as failed.  *)
(***************************************************************************)
C11_GateFirst ==
    [][ /\ (pc = "loop" /\ pc' # "interrupted" /\ state = OPEN
            /\ now - last_failure_time < recovery_timeout) =>
              /\ pc' = "failed"
              /\ history'.exception = "CircuitBreakerError"
              /\ history'.posts = 0
              /\ run'.read_sent = run.read_sent
              /\ invocations' = invocations /\ sleeps' = sleeps
              /\ state' = OPEN /\ failure_count' = failure_count
              /\ now' - last_failure_time' = now - last_failure_time
        /\ (pc = "failed" /\ history.exception = "CircuitBreakerError") =>
              /\ pc' \in {"loop", "finish"}
              /\ history'.posts = 0
              /\ ~outcome'.success /\ outcome'.error = "request failed"
              /\ success_count' = success_count
              /\ now' = now + FailureSleep ]_vars

\* an attempt rejected by the open breaker, before read_once handles it
C11_Witness ==
    /\ pc = "failed" /\ state = OPEN
    /\ history.exception = "CircuitBreakerError" /\ history.posts = 0
    /\ response = NoResponse

(***************************************************************************)
(* C12. CircuitBreaker: when the wrapped function raises an exception that *)
(* is not of the expected_exception type, the exception propagates and the *)
(* breaker is unaffected: failure_count, last_failure_time and state are   *)
(* after the call what they were before it, in every state the call can    *)
(* start from.                                                             *)
(***************************************************************************)
C12_OtherExceptionNoEffect ==
    [][ (pc = "in_call" /\ last_call' = "other") =>
          /\ pc' = "idle"
          /\ state' = entered.state
          /\ failure_count' = entered.failure_count
          /\ last_failure_time' = entered.last_failure_time ]_vars

(***************************************************************************)
(* C13. The half-open probe: if the probe call succeeds the breaker        *)
(* becomes CLOSED with failure_count = 0; if it fails with the expected    *)
(* exception the breaker becomes OPEN again and last_failure_time is the   *)
(* time of that failure, so that a full new cooldown must elapse before    *)
(* the next probe.                                                         *)
(***************************************************************************)
C13_ProbeOutcome ==
    [][ /\ (pc = "in_call" /\ state = HALF_OPEN /\ last_call' = "ok") =>
              state' = CLOSED /\ failure_count' = 0
        /\ (pc = "in_call" /\ state = HALF_OPEN /\ last_call' = "expected") =>
              state' = OPEN /\ last_failure_time' = now
        /\ (pc = "idle" /\ state = OPEN /\ calls' = calls + 1
            /\ now - last_failure_time < recovery_timeout) =>
              /\ last_call' = "rejected"
              /\ pc' = "idle" /\ state' = OPEN
              /\ half_open_calls' = half_open_calls ]_vars

\* a probe has just failed with the expected exception: OPEN again, cooldown restarted
C13_Witness ==
    /\ pc = "idle" /\ last_call = "expected" /\ state = OPEN
    /\ failure_count > failure_threshold
    /\ last_failure_time = now /\ now >= recovery_timeout


(***************************************************************************)
(* C14. retry_with_backoff: when the operation raises an exception that is *)
(* not in the retryable set, the wrapper propagates it at once: the        *)
(* operation has been invoked exactly once more, no sleep follows that     *)
(* failure and no further invocation is made, however many attempts        *)
(* remain.                                                                 *)
(***************************************************************************)
C14_NonRetryablePropagates ==
    [][ /\ (pc = "r_call" /\ operation[invocations + 1] = "other") =>
              /\ pc' = "r_done"
              /\ outcome' = [kind |-> "raised", of |-> invocations + 1]
              /\ invocations' = invocations + 1
              /\ sleeps' = sleeps /\ now' = now
        /\ pc = "r_done" =>
              /\ pc' = "r_done"
              /\ invocations' = invocations /\ sleeps' = sleeps ]_vars

\* the second invocation raised a non-retryable exception with an attempt left
C14_Witness ==
    /\ pc = "r_done" /\ max_attempts = 3 /\ invocations = 2 /\ sleeps = 1
    /\ operation[1] = "retryable" /\ operation[2] = "other"
    /\ outcome = [kind |-> "raised", of |-> 2]


C16_RenewalFailureInRun ==
    [][ (pc = "returned" /\ IsInvalidBody(response)
         /\ outcome'.error # "cookie refreshed") =>
          /\ outcome'.error = "cookie refresh failed"
          /\ history'.renewals = 1
          /\ history'.error_notes = IF notification_enabled THEN 1 ELSE 0
          /\ history'.note \in (IF notification_enabled THEN NotifyResults
                                ELSE {"none"})
          /\ pc' = IF loop_attempt < read_num THEN "loop" ELSE "finish"
          /\ loop_attempt' = loop_attempt + 1
          /\ cookies' = cookies /\ success_count' = success_count ]_vars

\* the first attempt's renewal failed, the notification went out, the loop goes on
C16_Witness ==
    /\ pc = "loop" /\ loop_attempt = 2 /\ notification_enabled
    /\ outcome.error = "cookie refresh failed"
    /\ history.renewals = 1 /\ history.error_notes = 1 /\ history.note = "ok"

(***************************************************************************)
(* C18. A failure to deliver a notification never escalates: whether send  *)
(* returns true, returns false or raises, for the completion notification  *)
(* or for an error notification, start_reading and refresh_cookie do the   *)
(* same: same return value, same loop progress, no exception.              *)
(***************************************************************************)
C18_NotificationFailureAbsorbed ==
    [][ /\ (pc = "init" /\ history'.note \in NotifyResults) =>
              /\ pc' = "aborted"
              /\ outcome'.error = "AuthError"
              /\ run'.renewed = "failed"
        /\ (pc = "returned" /\ history'.note \in NotifyResults) =>
              /\ pc' = IF loop_attempt < read_num THEN "loop" ELSE "finish"
              /\ outcome' = [success |-> FALSE, current_time |-> last_time,
                             error |-> "cookie refresh failed"]
              /\ loop_attempt' = loop_attempt + 1
              /\ success_count' = success_count /\ last_time' = last_time
              /\ cookies' = cookies
        /\ (pc = "finish" /\ history'.note \in NotifyResults) =>
              /\ pc' = "done"
              /\ result'.success_count = success_count
              /\ result'.total_attempts = read_num
              /\ UNCHANGED <<success_count, loop_attempt, outcome>> ]_vars

\* send raised for the completion notification and the record was returned
C18_Witness ==
    /\ pc = "done" /\ notification_enabled
    /\ history.note = "raises" /\ run.completion_notes = 1
    /\ result.total_attempts = read_num


(***************************************************************************)
(* C17. The record start_reading returns: success_count is the number of   *)
(* attempts that ended as Success (0 <= success_count <= READ_NUM),        *)
(* total_attempts = READ_NUM, reading_minutes = success_count * 0.5,       *)
(* success_rate = success_count / READ_NUM * 100; with READ_NUM = 10 and   *)
(* ten successes it is 10, 5.0 minutes, 100.0.                             *)
(***************************************************************************)
C17_Statistics ==
    /\ pc = "done" =>
          /\ result.success_count = run.successes
          /\ result.success_count >= 0 /\ result.success_count <= read_num
          /\ result.total_attempts = read_num /\ run.attempts = read_num
          \* reading_minutes * 2 = success_count
          /\ result.reading_half_minutes = result.success_count
          \* success_rate = p / q with p / q = success_count * 100 / read_num
          /\ result.success_rate[2] > 0
          /\ result.success_rate[1] * read_num
                = result.success_count * 100 * result.success_rate[2]
    /\ LET r == StatisticsRecord(10, 10)
       IN /\ r.success_count = 10 /\ r.total_attempts = 10
          /\ r.reading_half_minutes = 2 * 5
          /\ r.success_rate[1] = 100 * r.success_rate[2]

\* a run whose attempts all succeeded: rate 100
C17_Witness ==
    /\ pc = "done" /\ run.successes = read_num
    /\ result.success_count = read_num
    /\ result.success_rate[1] = 100 * result.success_rate[2]


(***************************************************************************)
(* C19. A failure of the synckey repair request never escalates: if the    *)
(* repair POST raises or returns a non-2xx status, fix_synckey returns     *)
(* false, and the attempt that triggered it ends as a failed 'missing      *)
(* synckey' attempt exactly as when the repair succeeds; success_count,    *)
(* last_time and the cookies do not depend on the repair's result.         *)
(***************************************************************************)
C19_RepairFailureAbsorbed ==
    [][ (pc = "returned" /\ response.kind = "json" /\ response.has_succ
         /\ response.succ = 1 /\ ~response.has_synckey) =>
          /\ history'.repairs = 1
          /\ history'.repair \in FixResults
          /\ history'.repaired = IF history'.repair = "ok" THEN "True" ELSE "False"
          /\ pc' = IF loop_attempt < read_num THEN "loop" ELSE "finish"
          /\ outcome' = [success |-> FALSE, current_time |-> last_time,
                         error |-> "missing synckey"]
          /\ loop_attempt' = loop_attempt + 1
          /\ now' = now + FailureSleep
          /\ UNCHANGED <<success_count, last_time, cookies>> ]_vars

\* the repair POST raised; the attempt ended as 'missing synckey' and the loop goes on
C19_Witness ==
    /\ pc = "loop" /\ outcome.error = "missing synckey"
    /\ history.repair = "raises" /\ history.repaired = "False"
    /\ history.repairs = 1


(***************************************************************************)
(* C20. Cancellation (KeyboardInterrupt during the sleep between attempts, *)
(* during a backoff sleep or during a request) is treated as 'stop before  *)
(* the next attempt, report partial statistics': the attempt in progress   *)
(* is not aborted midway, and the statistics accumulated so far are        *)
(* reported.                                                               *)
(***************************************************************************)
C20_GracefulCancellation ==
    [][ pc' = "interrupted" =>
          \* not in the middle of an attempt
          /\ pc \notin {"post", "backoff"}
          \* the record of the attempts made so far is returned
          /\ result'.success_count = success_count
          /\ result'.total_attempts = run.attempts ]_vars

(***************************************************************************)
(* main_new_version (main.py:103-159): the exit code of the process, from  *)
(* the way the run ended.                                                  *)
(***************************************************************************)
\* the subclasses of WxReadError (utils/exceptions.py)
WxReadErrors ==
    {"ConfigError", "NetworkError", "AuthError", "PushError", "ValidationError",
     "RateLimitError", "CircuitBreakerError"}

\* a variant that reports an interrupted run as a failure
MainExit_InterruptFails(exc) == IF exc = "None" THEN 0 ELSE 1

\* return 0 at line 143, and the except clauses of lines 148-159 in their order
MainExit(exc) ==
    IF exc = "None" THEN 0
    ELSE IF exc = "ConfigError" THEN 1
    ELSE IF exc \in WxReadErrors THEN 1
    ELSE IF exc = "KeyboardInterrupt" THEN 0
    ELSE 1

\* start_reading has returned or an exception has left it
RunEnded == pc \in {"done", "aborted", "raised", "interrupted"}

\* what main_new_version sees of the run
RunException == IF pc = "done" THEN "None" ELSE outcome.error

ExitCode == MainExit(RunException)

(***************************************************************************)
(* C21. In a normal run the process ends with a non-zero exit code only    *)
(* when configuration is invalid or the initial session renewal fails:     *)
(* every run whose initial renewal succeeded exits with code 0, whatever   *)
(* the outcomes of its attempts, zero successes included.                  *)
(***************************************************************************)
C21_ExitCode ==
    /\ RunEnded =>
          /\ run.renewed = "ok" => ExitCode = 0
          /\ ExitCode # 0 => run.renewed = "failed" /\ RunException = "AuthError"
    /\ MainExit("ConfigError") # 0

\* a run of ReadNum attempts none of which succeeded still exits with code 0
C21_Witness ==
    /\ pc = "done" /\ run.renewed = "ok" /\ result.success_count = 0
    /\ result.total_attempts = read_num /\ ExitCode = 0

(***************************************************************************)
(* C22. Session state changes only through renewal: the cookies mapping    *)
(* changes only when a renewal returns a new key, and then only its        *)
(* wr_skey entry changes; a renewal that returns no key or raises, a       *)
(* repair request and a read submission leave headers and cookies          *)
(* unchanged.                                                              *)
(***************************************************************************)
C22_SessionFrame ==
    [][ /\ headers' = headers
        /\ base_cookies' = base_cookies
        \* wr_skey changes only in a step that renews, to the key that was returned
        /\ cookies' # cookies =>
              /\ history'.renewals = 1
              /\ cookies' \in RenewResults /\ RefreshOk(cookies')
        \* a renewal that fails
        /\ (history'.renewals = 1
            /\ (pc' = "aborted" \/ outcome'.error = "cookie refresh failed")) =>
              cookies' = cookies
        \* a repair request, a read submission
        /\ history'.repairs = 1 => cookies' = cookies
        /\ (pc = "post" \/ pc' = "post") => cookies' = cookies ]_vars

\* an attempt whose renewal gave no key, after an initial renewal that gave one
C22_Witness ==
    /\ pc = "loop" /\ history.renewals = 1
    /\ outcome.error = "cookie refresh failed"
    /\ cookies = "skey_a"
    /\ headers = DefaultHeaders /\ base_cookies = DefaultCookies

(***************************************************************************)
(* SpecFleet: two WxReadBot instances in one process, their operations     *)
(* interleaved.  WxReadBot.__init__ (bot.py:26-60) builds for each         *)
(* instance a RequestManager, whose __init__ (request_manager.py:27-55)    *)
(* builds a Session and a CircuitBreaker, and _initialize_data builds new  *)
(* headers and cookies mappings.  fleet holds the objects: breakers[o] and *)
(* jars[o] are the o-th CircuitBreaker and the o-th cookies mapping that   *)
(* were constructed, and actor is the instance that made the latest step.  *)
(***************************************************************************)
Instances == {1, 2}

MaxFleetClock == 60     \* bound: the clock of SpecFleet stops here

\* a variant with one breaker for the process (a class attribute)
BreakerOf_Shared(i) == 1

\* the CircuitBreaker self.request_manager.circuit_breaker of instance i refers
\* to: the one its own RequestManager constructed (request_manager.py:44-48)
BreakerOf(i) == i

\* the mapping self.cookies of instance i refers to: the one its own call of
\* _get_default_cookies returned (bot.py:56-60, 120-127)
CookiesOf(i) == i

FleetInit ==
    /\ pc = "fleet" /\ now = 0
    /\ fleet = [breakers |-> [o \in Instances |->
                                [state |-> CLOSED, failure_count |-> 0,
                                 last_failure_time |-> NoTime]],
                jars |-> [o \in Instances |-> "none"],
                actor |-> 0]
    /\ CBIdle /\ RetryIdle /\ BotIdle /\ HashIdle /\ CryptoIdle
    /\ invocations = 0 /\ sleeps = 0 /\ operation = <<>>
    /\ outcome = "none" /\ history = <<>> /\ run = "none"

FleetUnchanged ==
    UNCHANGED <<pc, cbVars, retryVars, botVars, cbObs, retryObs, botObs, sessionVars,
                hashVars, cryptoVars>>

\* instance i calls read_book (request_manager.py:157-180): the call goes through
\* the instance's breaker, and post_json ends by returning or with NetworkError
FleetRead(i, o) ==
    /\ pc = "fleet"
    /\ LET b == fleet.breakers[BreakerOf(i)]
       IN IF GateRejects(b.state, b.last_failure_time, now, ReadRecoveryTimeout)
          THEN fleet' = [fleet EXCEPT !.actor = i]
          ELSE fleet' = [fleet EXCEPT
                           !.actor = i,
                           !.breakers[BreakerOf(i)] =
                               AfterCall(o,
                                         GateState(b.state, b.last_failure_time, now,
                                                   ReadRecoveryTimeout),
                                         b.failure_count, b.last_failure_time, now,
                                         ReadThreshold)]
    /\ UNCHANGED now
    /\ FleetUnchanged

\* instance i calls refresh_cookie (bot.py:129-157)
FleetRenew(i, r) ==
    /\ pc = "fleet"
    /\ fleet' = [fleet EXCEPT
                   !.actor = i,
                   !.jars[CookiesOf(i)] = CookiesAfterRenewal(r, @)]
    /\ UNCHANGED now
    /\ FleetUnchanged

\* time.sleep between attempts (bot.py:259)
FleetSleep ==
    /\ pc = "fleet"
    /\ now + SuccessSleep <= MaxFleetClock
    /\ now' = now + SuccessSleep
    /\ fleet' = [fleet EXCEPT !.actor = 0]
    /\ FleetUnchanged

FleetNext ==
    \/ \E i \in Instances, o \in {"ok", "expected"} : FleetRead(i, o)
    \/ \E i \in Instances, r \in RenewResults : FleetRenew(i, r)
    \/ FleetSleep

SpecFleet == FleetInit /\ [][FleetNext]_vars

(***************************************************************************)
(* C23. Two orchestrator instances share no mutable state: in any          *)
(* interleaving of their operations, failures counted by one instance's    *)
(* circuit breaker never change the other instance's breaker state or      *)
(* failure count, and a renewal in one instance never changes the other's  *)
(* cookies.                                                                *)
(***************************************************************************)
C23_InstancesIndependent ==
    [][ \A i \in Instances :
          fleet'.actor # i =>
            /\ fleet'.breakers[BreakerOf(i)] = fleet.breakers[BreakerOf(i)]
            /\ fleet'.jars[CookiesOf(i)] = fleet.jars[CookiesOf(i)] ]_vars

\* instance 1 has opened its breaker and renewed its key; instance 2, which has
\* made a successful call meanwhile, still is where it started
C23_Witness ==
    /\ fleet.breakers[BreakerOf(1)].state = OPEN
    /\ fleet.breakers[BreakerOf(1)].failure_count = ReadThreshold
    /\ fleet.breakers[BreakerOf(2)].state = CLOSED
    /\ fleet.breakers[BreakerOf(2)].failure_count = 0
    /\ fleet.jars[CookiesOf(1)] = "skey_a" /\ fleet.jars[CookiesOf(2)] = "none"
    /\ fleet.actor = 1

(***************************************************************************)
(* CryptoUtils.calculate_hash (crypto.py:57-92).  Python integers have no  *)
(* width: a value is kept here as the sequence of its binary digits,       *)
(* lowest first and with no leading zero digit, so that no width is        *)
(* assumed that the code does not enforce.                                 *)
(***************************************************************************)
RECURSIVE Bits(_)
Bits(n) == IF n = 0 THEN <<>> ELSE <<n % 2>> \o Bits(n \div 2)

RECURSIVE Strip(_)
Strip(a) ==
    IF Len(a) = 0 THEN <<>>
    ELSE IF a[Len(a)] = 0 THEN Strip(SubSeq(a, 1, Len(a) - 1))
    ELSE SubSeq(a, 1, Len(a))

Bit(a, k) == IF k <= Len(a) THEN a[k] ELSE 0
Max(a, b) == IF a >= b THEN a ELSE b

\* x ^ y, x & y, x << k, x + y
Xor(a, b) == Strip([k \in 1..Max(Len(a), Len(b)) |-> (Bit(a, k) + Bit(b, k)) % 2])
And(a, b) == Strip([k \in 1..Min(Len(a), Len(b)) |-> Bit(a, k) * Bit(b, k)])
Shl(a, k) == IF Len(a) = 0 THEN <<>> ELSE [j \in 1..k |-> 0] \o a

RECURSIVE AddFrom(_, _, _, _)
AddFrom(a, b, k, carry) ==
    IF k > Max(Len(a), Len(b))
    THEN IF carry = 1 THEN <<1>> ELSE <<>>
    ELSE LET s == Bit(a, k) + Bit(b, k) + carry
         IN <<s % 2>> \o AddFrom(a, b, k + 1, s \div 2)

Add(a, b) == AddFrom(a, b, 1, 0)

\* hex(n)[2:].lower() for n >= 0
HexDigits ==
    <<"0", "1", "2", "3", "4", "5", "6", "7", "8", "9", "a", "b", "c", "d", "e", "f">>

Hex(a) ==
    IF a = <<>> THEN <<"0">>
    ELSE LET n == (Len(a) + 3) \div 4
             Nibble(j) == Bit(a, 4 * j + 1) + 2 * Bit(a, 4 * j + 2)
                          + 4 * Bit(a, 4 * j + 3) + 8 * Bit(a, 4 * j + 4)
         IN [d \in 1..n |-> HexDigits[1 + Nibble(n - d)]]

Seed == 352654597               \* 0x15051505, line 69

Mask_Wide == [k \in 1..32 |-> 1]

Mask == Bits(2147483647)        \* 0x7fffffff, lines 77 and 82

HashShift_NoWrap(n) == n

\* lines 76 and 81: the shift amounts are taken modulo 30
HashShift(n) == n % 30

\* ord(input_string[k]) for the 0-based index k
CharCode(str, k) == str[k + 1]

\* in SpecHash `history` is the sequence of the indices of input_string read so far
HashUnchanged ==
    UNCHANGED <<now, cbVars, retryVars, botVars, cbObs, retryObs, outcome, run,
                sessionVars, fleet, cryptoVars>>

\* a variant of the loop condition that lets the loop run at index 0
WhileCondition_ToZero(i) == i >= 0

\* line 74: while _19094e > 0
WhileCondition(i) == i > 0

\* lines 75 and 80: the indices one iteration reads
IndicesRead(i) == IF i > 0 THEN <<i, i - 1>> ELSE <<i>>

\* lines 75-77: _7032f5 after the iteration at index i
HashFirst(str, i, a1) ==
    LET length == Len(str)
        char_code == CharCode(str, i)
        shift_amount == HashShift(length - i)
    IN And(Mask, Xor(a1, Shl(Bits(char_code), shift_amount)))

\* lines 79-82: _cc1055 after the iteration at index i
HashSecond(str, i, a2) ==
    IF i > 0
    THEN LET char_code_prev == CharCode(str, i - 1)
             shift_amount_prev == HashShift(i)
         IN And(Mask, Xor(a2, Shl(Bits(char_code_prev), shift_amount_prev)))
    ELSE a2

\* one iteration of the loop, lines 75-84
HashStep ==
    /\ pc = "h_loop" /\ WhileCondition(idx)
    /\ h1' = HashFirst(input_string, idx, h1)
    /\ h2' = HashSecond(input_string, idx, h2)
    /\ idx' = idx - 2
    /\ history' = history \o IndicesRead(idx)
    /\ UNCHANGED <<pc, input_string, digest>>
    /\ HashUnchanged

\* the loop ends, lines 74 and 86-88
HashReturn ==
    /\ pc = "h_loop" /\ ~WhileCondition(idx)
    /\ digest' = Hex(Add(h1, h2))
    /\ pc' = "h_done"
    /\ UNCHANGED <<input_string, h1, h2, idx, history>>
    /\ HashUnchanged

\* calculate_hash as a function of its argument: the loop from index i on, the
\* accumulators being a1 and a2 (both are evaluated before the next iteration)
RECURSIVE HashLoop(_, _, _, _)
HashLoop(str, i, a1, a2) ==
    IF Len(a1) >= 0 /\ Len(a2) >= 0 /\ WhileCondition(i)
    THEN HashLoop(str, i - 2, HashFirst(str, i, a1), HashSecond(str, i, a2))
    ELSE Hex(Add(a1, a2))

CalculateHash(str) == HashLoop(str, Len(str) - 1, Bits(Seed), Bits(Seed))

(***************************************************************************)
(* SpecHash: one call of calculate_hash, on every string over Codes of     *)
(* length up to MaxHashLen and on the strings of length LongLen that       *)
(* repeat one or two codes (on these the shift amounts pass 30 and the     *)
(* shifted codes pass the 31st digit).                                     *)
(***************************************************************************)
MaxHashLen == 3         \* bound: every string up to this length
LongLen    == 33        \* bound: the length of the long strings

\* '1', a CJK character and the largest code point
Codes == {49, 19977, 1114111}

HashInputs ==
    UNION { [1..n -> Codes] : n \in 0..MaxHashLen }
      \cup { [k \in 1..LongLen |-> IF k % 2 = 1 THEN c ELSE d] : c, d \in Codes }

HashInit ==
    /\ pc = "h_loop" /\ now = 0
    /\ input_string \in HashInputs
    /\ h1 = Bits(Seed) /\ h2 = Bits(Seed)
    /\ idx = Len(input_string) - 1
    /\ digest = <<>>
    /\ CBIdle /\ RetryIdle /\ BotIdle /\ FleetIdle /\ CryptoIdle
    /\ invocations = 0 /\ sleeps = 0 /\ operation = <<>>
    /\ outcome = "none" /\ history = <<>> /\ run = "none"

HashNext == HashStep \/ HashReturn

SpecHash == HashInit /\ [][HashNext]_vars

(***************************************************************************)
(* C24. calculate_hash equals the documented reference for every input     *)
(* string: with h1 = h2 = 0x15051505 and i running L-1, L-3, ... while     *)
(* i > 0, h1 = (h1 XOR (code(i) << ((L-i) mod 30))) & 0x7fffffff and       *)
(* h2 = (h2 XOR (code(i-1) << (i mod 30))) & 0x7fffffff, the result being  *)
(* the lowercase hex of h1+h2 with no prefix and no padding; for the empty *)
(* string and every string of length 1 the loop body never runs and the    *)
(* result is the seed sum '2a0a2a0a'.                                      *)
(***************************************************************************)
\* the documented iteration from index i on, the accumulators being a1 and a2
RECURSIVE RefFold(_, _, _, _)
RefFold(str, i, a1, a2) ==
    IF Len(a1) <= 31 /\ Len(a2) <= 31 /\ i > 0
    THEN RefFold(str, i - 2,
                 And(Bits(2147483647),
                     Xor(a1, Shl(Bits(str[i + 1]), (Len(str) - i) % 30))),
                 And(Bits(2147483647),
                     Xor(a2, Shl(Bits(str[i]), i % 30))))
    ELSE <<a1, a2>>

ReferenceHash(str) ==
    LET h == RefFold(str, Len(str) - 1, Bits(Seed), Bits(Seed))
    IN Hex(Add(h[1], h[2]))

SeedSum == <<"2", "a", "0", "a", "2", "a", "0", "a">>

C24_HashMatchesReference ==
    pc = "h_done" =>
        /\ digest = ReferenceHash(input_string)
        /\ Len(input_string) <= 1 => digest = SeedSum
        \* what the code returns for '11' and for '1' repeated 33 times
        /\ input_string = <<49, 49>> =>
              digest = <<"2", "a", "0", "a", "2", "a", "c", "e">>
        /\ input_string = [k \in 1..33 |-> 49] =>
              digest = <<"b", "f", "f", "f", "f", "f", "9", "1">>

\* a string long enough for the shift amounts to wrap around 30, hashed
C24_Witness ==
    /\ pc = "h_done" /\ Len(input_string) = LongLen
    /\ input_string[1] = 49 /\ input_string[2] = 19977
    /\ digest # SeedSum

(***************************************************************************)
(* C25. In calculate_hash both accumulators are 31-bit values at every     *)
(* step: after every loop iteration 0 <= h1 < 2^31 and 0 <= h2 < 2^31 for  *)
(* any input string and any character codes, so the returned value h1+h2   *)
(* is below 2^32 (at most 8 hex digits).                                   *)
(***************************************************************************)
C25_Accumulators31Bit ==
    pc \in {"h_loop", "h_done"} =>
        /\ Len(h1) <= 31 /\ Len(h2) <= 31
        /\ \A k \in 1..Len(h1) : h1[k] \in {0, 1}
        /\ \A k \in 1..Len(h2) : h2[k] \in {0, 1}
        /\ Len(Add(h1, h2)) <= 32
        /\ pc = "h_done" => Len(digest) <= 8

\* the iteration just made shifted a code past the 31st digit, and h1 has 31 digits
C25_Witness ==
    /\ pc = "h_loop" /\ idx + 2 <= Len(input_string) - 1
    /\ Len(Shl(Bits(CharCode(input_string, idx + 2)),
               HashShift(Len(input_string) - (idx + 2)))) > 31
    /\ Len(h1) = 31

(***************************************************************************)
(* CryptoUtils.encode_data (crypto.py:30-54).  A str is the sequence of    *)
(* its character codes; a dict is the sequence of its items                *)
(* [key |-> k, value |-> v] in insertion order; a value is an int          *)
(* ([int |-> n]) or a str ([str |-> s]).                                   *)
(***************************************************************************)
IntValue(n) == [t |-> "int", v |-> n]
StrValue(str) == [t |-> "str", v |-> str]

\* str(n) for an int n
RECURSIVE Digits(_)
Digits(n) == IF n < 10 THEN <<48 + n>> ELSE Digits(n \div 10) \o <<48 + (n % 10)>>

Decimal(n) == IF n < 0 THEN <<45>> \o Digits(0 - n) ELSE Digits(n)

\* str(data[key]), line 44
Str(val) == IF val.t = "int" THEN Decimal(val.v) ELSE val.v

\* urllib.parse.quote(value, safe=''): letters, digits and _ . - ~ are kept, every
\* other character becomes %XX for each byte of its UTF-8 encoding
IsUnreserved(c) ==
    c \in (48..57) \cup (65..90) \cup (97..122) \cup {95, 46, 45, 126}

Utf8(c) ==
    IF c < 128 THEN <<c>>
    ELSE IF c < 2048 THEN <<192 + (c \div 64), 128 + (c % 64)>>
    ELSE IF c < 65536
    THEN <<224 + (c \div 4096), 128 + ((c \div 64) % 64), 128 + (c % 64)>>
    ELSE <<240 + (c \div 262144), 128 + ((c \div 4096) % 64),
           128 + ((c \div 64) % 64), 128 + (c % 64)>>

HexUpper(d) == IF d < 10 THEN 48 + d ELSE 55 + d

RECURSIVE PercentBytes(_)
PercentBytes(bytes) ==
    IF Len(bytes) = 0 THEN <<>>
    ELSE <<37, HexUpper(bytes[1] \div 16), HexUpper(bytes[1] % 16)>>
         \o PercentBytes(Tail(bytes))

RECURSIVE Quote(_)
Quote(str) ==
    IF Len(str) = 0 THEN <<>>
    ELSE (IF IsUnreserved(str[1]) THEN <<str[1]>> ELSE PercentBytes(Utf8(str[1])))
         \o Quote(Tail(str))

\* a < b for two str, as Python compares them: by code point, a prefix first
RECURSIVE LexLess(_, _)
LexLess(a, b) ==
    IF Len(b) = 0 THEN FALSE
    ELSE IF Len(a) = 0 THEN TRUE
    ELSE IF a[1] # b[1] THEN a[1] < b[1]
    ELSE LexLess(Tail(a), Tail(b))

\* data.keys(), in insertion order
Keys(d) == [k \in 1..Len(d) |-> d[k].key]
KeySet(d) == { d[k].key : k \in 1..Len(d) }

\* data[key]
Get(d, key) == (CHOOSE k \in 1..Len(d) : d[k].key = key)

RECURSIVE Ascending(_)
Ascending(S) ==
    IF S = {} THEN <<>>
    ELSE LET m == CHOOSE x \in S : \A y \in S \ {x} : LexLess(x, y)
         IN <<m>> \o Ascending(S \ {m})

\* a variant that walks the keys as the dict gives them
SortedKeys_AsInserted(d) == Keys(d)

\* sorted(data.keys()), line 43
SortedKeys(d) == Ascending(KeySet(d))

\* '&'.join(parts), line 48
RECURSIVE Join(_)
Join(parts) ==
    IF Len(parts) = 0 THEN <<>>
    ELSE IF Len(parts) = 1 THEN parts[1]
    ELSE parts[1] \o <<38>> \o Join(Tail(parts))

\* lines 42-50
EncodeData(d) ==
    LET keys == SortedKeys(d)
        encoded_pairs ==
            [k \in 1..Len(keys) |->
                keys[k] \o <<61>> \o Quote(Str(d[Get(d, keys[k])].value))]
    IN Join(encoded_pairs)

(***************************************************************************)
(* SpecEncode: calls of encode_data on one mapping, for every mapping of   *)
(* up to MaxFields of the keys B, b, c, ci with values from EncodeValues,  *)
(* in every insertion order.                                               *)
(***************************************************************************)
MaxFields == 3          \* bound: items in the mapping

EncodeKeys == {<<66>>, <<98>>, <<99>>, <<99, 105>>}

\* 27, 'x y' and the character U+4E09
EncodeValues == {IntValue(27), StrValue(<<120, 32, 121>>), StrValue(<<19977>>)}

Mappings ==
    UNION { { d \in [1..n -> [key : EncodeKeys, value : EncodeValues]] :
                \A i, j \in 1..n : i # j => d[i].key # d[j].key } :
            n \in 0..MaxFields }

EncodeInit ==
    /\ pc = "e_ready" /\ now = 0
    /\ args = <<>> /\ data \in Mappings /\ encoded = <<>>
    /\ CBIdle /\ RetryIdle /\ BotIdle /\ FleetIdle /\ HashIdle
    /\ invocations = 0 /\ sleeps = 0 /\ operation = <<>>
    /\ outcome = "none" /\ history = <<>> /\ run = "none"

CryptoUnchanged ==
    UNCHANGED <<now, cbVars, retryVars, botVars, cbObs, retryObs, botObs,
                sessionVars, fleet, hashVars>>

\* a call encode_data(data), the first or a later one
EncodeCall ==
    /\ pc \in {"e_ready", "e_done"}
    /\ encoded' = EncodeData(data)
    /\ pc' = "e_done"
    /\ UNCHANGED <<args, data>>
    /\ CryptoUnchanged

\* the caller builds the same items in another insertion order
EncodeReorder ==
    /\ pc = "e_done"
    /\ \E p \in [1..Len(data) -> 1..Len(data)] :
          /\ \A i, j \in 1..Len(data) : i # j => p[i] # p[j]
          /\ data' = [k \in 1..Len(data) |-> data[p[k]]]
          /\ data' # data
    /\ pc' = "e_ready"
    /\ UNCHANGED <<args, encoded>>
    /\ CryptoUnchanged

EncodeNext == EncodeCall \/ EncodeReorder

SpecEncode == EncodeInit /\ [][EncodeNext]_vars

(***************************************************************************)
(* C27. encode_data is stable and order-independent: for any field         *)
(* mapping the output lists the keys in ascending lexicographic order      *)
(* joined as key=value with '&', repeated calls on the same mapping give   *)
(* the same string, and two mappings with the same key/value pairs         *)
(* inserted in different orders encode to the same string.                 *)
(***************************************************************************)
\* the pieces of str between the occurrences of sep
RECURSIVE Split(_, _, _)
Split(str, sep, piece) ==
    IF Len(str) = 0 THEN <<piece>>
    ELSE IF str[1] = sep THEN <<piece>> \o Split(Tail(str), sep, <<>>)
    ELSE Split(Tail(str), sep, piece \o <<str[1]>>)

\* the key=value pieces of an encoded string
Pieces(str) == IF Len(str) = 0 THEN <<>> ELSE Split(str, 38, <<>>)

C27_EncodeStable ==
    /\ [](pc = "e_done" =>
            LET pieces == Pieces(encoded)
                KeyOf(k) == Split(pieces[k], 61, <<>>)[1]
                ValueOf(k) == Split(pieces[k], 61, <<>>)[2]
            IN /\ Len(pieces) = Len(data)
               /\ { KeyOf(k) : k \in 1..Len(pieces) } = KeySet(data)
               /\ \A k \in 1..Len(pieces) - 1 : LexLess(KeyOf(k), KeyOf(k + 1))
               /\ \A k \in 1..Len(pieces) :
                     /\ Len(Split(pieces[k], 61, <<>>)) = 2
                     /\ ValueOf(k) = Quote(Str(data[Get(data, KeyOf(k))].value)))
    \* a repeated call, and a call after the items were inserted in another order
    /\ [][(pc' = "e_done" /\ pc \in {"e_done", "e_ready"} /\ Len(encoded) > 0)
            => encoded' = encoded]_vars

\* B=x%20y&b=27&ci=%E4%B8%89, from a mapping built with ci first, then b, then B
C27_Witness ==
    /\ pc = "e_done"
    /\ Keys(data) = <<<<99, 105>>, <<98>>, <<66>>>>
    /\ encoded = <<66, 61, 120, 37, 50, 48, 121, 38,
                   98, 61, 50, 55, 38,
                   99, 105, 61, 37, 69, 52, 37, 66, 56, 37, 56, 57>>

(***************************************************************************)
(* CryptoUtils.create_request_data (crypto.py:148-198) with                *)
(* generate_timestamp, generate_random_number and generate_signature.      *)
(***************************************************************************)
\* ENCRYPTION_KEY, line 27
EncryptionKey ==
    <<51, 99, 53, 99, 56, 55, 49, 55, 102, 51, 100, 97, 102, 48, 57, 105, 111, 112,
      51, 52, 50, 51, 122, 97, 102, 101, 113, 111, 105>>

\* the keys 'b', 'c', 's', 'ct', 'ts', 'rt', 'rn', 'sg'
Kb == <<98>>
Kc == <<99>>
Ks == <<115>>
Kct == <<99, 116>>
Kts == <<116, 115>>
Krt == <<114, 116>>
Krn == <<114, 110>>
Ksg == <<115, 103>>

\* key in data
Has(d, key) == key \in KeySet(d)

\* data.pop(key, None)
Pop(d, key) == SelectSeq(d, LAMBDA item : item.key # key)

\* data[key] = val: an item that is there keeps its place, a new one goes last
Set(d, key, val) ==
    IF Has(d, key)
    THEN [k \in 1..Len(d) |-> IF d[k].key = key THEN [key |-> key, value |-> val]
                              ELSE d[k]]
    ELSE Append(d, [key |-> key, value |-> val])

\* the characters of a string of hex digits, as codes
HexCodes(chars) ==
    [k \in 1..Len(chars) |->
        LET d == CHOOSE j \in 1..16 : HexDigits[j] = chars[k]
        IN IF d <= 10 THEN 47 + d ELSE 86 + d]

\* hashlib.sha256(message.encode()).hexdigest(), line 111.  SHA-256 is library
\* code; it is kept abstract as an injective function from messages to strings of
\* lowercase hex digits: two digits per character of the message.
RECURSIVE Sha256Hex(_)
Sha256Hex(message) ==
    IF Len(message) = 0 THEN <<>>
    ELSE HexCodes(<<HexDigits[1 + ((message[1] \div 16) % 16)],
                    HexDigits[1 + (message[1] % 16)]>>)
         \o Sha256Hex(Tail(message))

\* a variant that puts the random number first
SignString_RnFirst(timestamp, random_num) ==
    Decimal(random_num) \o Decimal(timestamp) \o EncryptionKey

\* line 108: f"{timestamp}{random_num}{CryptoUtils.ENCRYPTION_KEY}"
SignString(timestamp, random_num) ==
    Decimal(timestamp) \o Decimal(random_num) \o EncryptionKey

\* generate_signature, lines 106-114
GenerateSignature(timestamp, random_num) == Sha256Hex(SignString(timestamp, random_num))

\* a variant that leaves the signature of the base payload in place
DropOldSignature_Keeps(d) == d

\* line 171: data.pop('s', None)
DropOldSignature(d) == Pop(d, Ks)

MaxVal == 1000          \* generate_random_number: random.randint(0, 1000)

\* what random.randint(0, 1000) gives: the ends of the range and two values between
RandomDraws == {0, 7, 137, MaxVal}

\* lines 168-187: data before the final hash, for the clock reading t and the
\* two random draws
SignedFields(a, t, draw_ts, draw_rn) ==
    LET copied == a.base_data
        dropped == DropOldSignature(copied)
        with_b == Set(dropped, Kb, StrValue(a.book_id))
        with_c == Set(with_b, Kc, StrValue(a.chapter_id))
        current_time == t
        timestamp_ms == current_time * 1000 + draw_ts
        with_ct == Set(with_c, Kct, IntValue(current_time))
        with_ts == Set(with_ct, Kts, IntValue(timestamp_ms))
        with_rt == Set(with_ts, Krt, IntValue(current_time - a.last_time))
        with_rn == Set(with_rt, Krn, IntValue(draw_rn))
    IN Set(with_rn, Ksg,
           StrValue(GenerateSignature(timestamp_ms, with_rn[Get(with_rn, Krn)].value.v)))

(***************************************************************************)
(* SpecRequest: one call of create_request_data, for base payloads with    *)
(* and without an s, a b, a c and fields of their own, and for the draws   *)
(* of RandomDraws.                                                         *)
(***************************************************************************)
Item(key, val) == [key |-> key, value |-> val]

BasePayloads ==
    { <<>>,
      \* appId, b, c, ci, rt: a payload like base_data of bot.py:63-74
      <<Item(<<97, 112, 112, 73, 100>>, StrValue(<<119, 98>>)),
        Item(Kb, StrValue(<<111, 108, 100>>)), Item(Kc, StrValue(<<111, 108, 100>>)),
        Item(<<99, 105>>, IntValue(27)), Item(Krt, IntValue(15))>>,
      \* the same with the s of an earlier request
      <<Item(<<97, 112, 112, 73, 100>>, StrValue(<<119, 98>>)),
        Item(Kb, StrValue(<<111, 108, 100>>)), Item(Kc, StrValue(<<111, 108, 100>>)),
        Item(<<99, 105>>, IntValue(27)), Item(Krt, IntValue(15)),
        Item(Ks, StrValue(<<50, 97, 48, 97, 50, 97, 48, 97>>))>>,
      \* s first, then sm = U+4E09 ' ' 'x', no b and no c
      <<Item(Ks, StrValue(<<115, 116, 97, 108, 101>>)),
        Item(<<115, 109>>, StrValue(<<19977, 32, 120>>))>> }

RequestArgs ==
    [base_data : BasePayloads, book_id : {<<98, 107, 49>>},
     chapter_id : {<<99, 104, 49>>, <<99, 104, 50>>},
     last_time : {Epoch - InitialGap, Epoch}]

RequestInit ==
    /\ pc = "q_call" /\ now = Epoch
    /\ args \in RequestArgs /\ data = <<>> /\ encoded = <<>>
    /\ CBIdle /\ RetryIdle /\ BotIdle /\ FleetIdle /\ HashIdle
    /\ invocations = 0 /\ sleeps = 0 /\ operation = <<>>
    /\ outcome = "none" /\ history = <<>> /\ run = "none"

\* create_request_data, lines 166-194; encoded keeps encoded_data (line 190)
CreateRequestData(draw_ts, draw_rn) ==
    /\ pc = "q_call"
    /\ LET fields == SignedFields(args, now, draw_ts, draw_rn)
           encoded_data == EncodeData(fields)
       IN /\ encoded' = encoded_data
          /\ data' = Set(fields, Ks, StrValue(HexCodes(CalculateHash(encoded_data))))
    /\ pc' = "q_done"
    /\ UNCHANGED args
    /\ CryptoUnchanged

RequestNext == \E draw_ts, draw_rn \in RandomDraws : CreateRequestData(draw_ts, draw_rn)

SpecRequest == RequestInit /\ [][RequestNext]_vars

\* data[key], for a key that is there
Field(d, key) == d[Get(d, key)].value

(***************************************************************************)
(* C26. In every signed request, sg equals the SHA-256 hex digest of the   *)
(* concatenation of the decimal ts, the decimal rn and the fixed secret    *)
(* key, where ts and rn are exactly the values stored in the ts and rn     *)
(* fields of the same request.                                             *)
(***************************************************************************)
C26_Signature ==
    pc = "q_done" =>
        /\ Has(data, Ksg) /\ Has(data, Kts) /\ Has(data, Krn)
        /\ Field(data, Kts).t = "int" /\ Field(data, Krn).t = "int"
        /\ Field(data, Ksg) =
              StrValue(Sha256Hex(Decimal(Field(data, Kts).v)
                                 \o Decimal(Field(data, Krn).v)
                                 \o EncryptionKey))

\* ts = 300137 and rn = 7: the digits of ts and rn run together in the message
C26_Witness ==
    /\ pc = "q_done"
    /\ Field(data, Kts) = IntValue(Epoch * 1000 + 137)
    /\ Field(data, Krn) = IntValue(7)
    /\ Field(data, Ksg).v = Sha256Hex(Decimal(Epoch * 1000 + 137) \o <<55>> \o EncryptionKey)

(***************************************************************************)
(* C28. create_request_data computes s last and over everything else: any  *)
(* s present in the base payload is dropped, b and c are overwritten with  *)
(* the given book and chapter ids, and the final s is the custom hash of   *)
(* the serialization of all other fields of the returned request           *)
(* (including ct, ts, rt, rn and sg) with s itself excluded; the returned  *)
(* request never carries an s inherited from the base.                     *)
(***************************************************************************)
C28_SignatureLast ==
    pc = "q_done" =>
        LET others == Pop(data, Ks)
        IN /\ Cardinality(KeySet(data)) = Len(data)
           /\ Has(data, Ks)
           /\ Field(data, Kb) = StrValue(args.book_id)
           /\ Field(data, Kc) = StrValue(args.chapter_id)
           \* every other field of the base is still there, and the five new ones
           /\ KeySet(others) =
                 (KeySet(args.base_data) \ {Ks}) \cup {Kb, Kc, Kct, Kts, Krt, Krn, Ksg}
           /\ \A k \in 1..Len(args.base_data) :
                 args.base_data[k].key \notin {Ks, Kb, Kc, Krt} =>
                     Field(data, args.base_data[k].key) = args.base_data[k].value
           \* s is the hash of the serialization of the others
           /\ encoded = EncodeData(others)
           /\ Field(data, Ks) = StrValue(HexCodes(CalculateHash(EncodeData(others))))
           /\ Has(args.base_data, Ks) => Field(data, Ks) # Field(args.base_data, Ks)

\* a base payload that carried the s '2a0a2a0a' of an earlier request
C28_Witness ==
    /\ pc = "q_done"
    /\ Has(args.base_data, Ks) /\ Has(args.base_data, Kb)
    /\ Field(args.base_data, Kb) # Field(data, Kb)
    /\ Keys(data)[Len(data)] = Ks
    /\ Len(Field(data, Ks).v) = 8

(***************************************************************************)
(* C29. CircuitBreaker in CLOSED state: a successful call resets           *)
(* failure_count to 0, so the breaker opens only when failure_threshold    *)
(* counted failures occur with no successful call between them; a sequence *)
(* in which every run of consecutive failures is shorter than              *)
(* failure_threshold never reaches OPEN.                                   *)
(***************************************************************************)
C29_OpensOnlyOnFullRun ==
    \* while no run of counted failures has reached the threshold, the breaker is
    \* CLOSED and failure_count is the length of the current run
    /\ [](fail_run < failure_threshold =>
             state = CLOSED /\ failure_count = fail_run)
    /\ [][ /\ (pc = "in_call" /\ entered.state = CLOSED /\ last_call' = "ok") =>
                 failure_count' = 0 /\ state' = CLOSED /\ fail_run' = 0
           /\ (state # OPEN /\ state' = OPEN) =>
                 /\ last_call' = "expected"
                 /\ fail_run' >= failure_threshold
                 /\ fail_run' = fail_run + 1 ]_vars

\* a success right after a counted failure (last_failure_time is set, and no
\* reset() has cleared it): the count is back to 0 with the breaker CLOSED
C29_Witness ==
    /\ pc = "idle" /\ failure_threshold = 2 /\ calls = 2
    /\ last_call = "ok" /\ last_failure_time # NoTime
    /\ fail_run = 0 /\ failure_count = 0 /\ state = CLOSED

(***************************************************************************)
(* C30. An attempt whose response has succ == 1 but no synckey triggers    *)
(* exactly one synckey repair call, is recorded as a failed attempt        *)
(* (success_count unchanged), does not trigger a session renewal, and      *)
(* leaves last_time unchanged.                                             *)
(***************************************************************************)
C30_MissingSynckey ==
    [][ (pc = "returned" /\ ValidateResponse(response) /\ ~response.has_synckey) =>
          /\ history'.repairs = 1 /\ history'.renewals = 0
          /\ history'.error_notes = 0
          /\ ~outcome'.success
          /\ success_count' = success_count
          /\ run'.successes = run.successes
          /\ last_time' = last_time
          /\ last_time' = run'.accepted_ct
          /\ cookies' = cookies
          \* the short delay before the next attempt
          /\ now' = now + FailureSleep ]_vars

\* the second attempt, after a success: the repair request went through, and the
\* attempt still is a failure that leaves last_time at the ct of the success
C30_Witness ==
    /\ pc = "loop" /\ loop_attempt = 3 /\ success_count = 1
    /\ outcome.error = "missing synckey" /\ ~outcome.success
    /\ history.repairs = 1 /\ history.repair = "ok" /\ history.renewals = 0
    /\ now - last_time = SuccessSleep + FailureSleep

(***************************************************************************)
(* C31. Between two consecutive attempts the loop sleeps exactly once: 30  *)
(* seconds after an attempt that ended as Success, 5 seconds after an      *)
(* attempt that ended in any failure.  An attempt starts only from the top *)
(* of the loop, which is reached only through that sleep (or, for the      *)
(* first attempt, from the initial renewal), and no time passes between    *)
(* the end of the sleep and the start of the next attempt; while an        *)
(* attempt is in progress no other attempt starts.                         *)
(***************************************************************************)
\* an attempt is in progress: read_once has been entered and has not returned
AttemptInProgress == pc \in {"post", "backoff", "returned", "failed"}

C31_OneSleepBetweenAttempts ==
    [][ /\ IterationEnds =>
              /\ now' = now + (IF IsSuccessBody(response) THEN 30 ELSE 5)
              /\ run'.attempts = run.attempts
        \* the top of the loop is reached through the sleep only
        /\ (pc' = "loop" /\ pc # "loop") =>
              \/ pc = "init"
              \/ IterationEnds
        \* an attempt starts at the top of the loop, at the time the sleep ended
        /\ run'.attempts # run.attempts =>
              /\ pc = "loop" /\ ~AttemptInProgress
              /\ run'.attempts = run.attempts + 1
              /\ pc' \in {"post", "failed"}
              /\ now' - run'.accepted_ct = now - run.accepted_ct
        \* the attempt in progress ends before anything else happens
        /\ AttemptInProgress =>
              /\ run'.attempts = run.attempts
              /\ loop_attempt' \in {loop_attempt, loop_attempt + 1}
              /\ loop_attempt' = loop_attempt + 1 => IterationEnds ]_vars

\* a success, then an attempt whose three POSTs failed: 30 seconds of sleep after
\* the first, the backoff sleeps of 1 and 2 seconds inside the second, 5 seconds
\* after it
C31_Witness ==
    /\ pc = "loop" /\ run.attempts = 2 /\ success_count = 1
    /\ outcome.error = "request failed" /\ history.posts = PostJsonMaxAttempts
    /\ now - last_time = SuccessSleep + 1 + 2 + FailureSleep

(***************************************************************************)
(* C32. A renewal request or a repair request, failed or not, leaves the   *)
(* state, failure_count and last_failure_time of the breaker that guards   *)
(* read submissions as they were; these fields move only in read_book: at  *)
(* its gate (OPEN to HALF_OPEN after the cooldown) and when the call       *)
(* through the breaker ends.                                               *)
(***************************************************************************)
\* the step in which refresh_cookie or fix_synckey sends its request
SendsRenewalOrRepair ==
    /\ pc \in {"init", "returned"}
    /\ history'.renewals = 1 \/ history'.repairs = 1

C32_ReadBreakerOnly ==
    [][ /\ SendsRenewalOrRepair =>
              /\ state' = state
              /\ failure_count' = failure_count
              /\ last_failure_time' = last_failure_time
        /\ (state' # state \/ failure_count' # failure_count) =>
              pc \in {"loop", "post"}
        /\ last_failure_time' # last_failure_time =>
              \* a counted failure of read_book
              \/ pc = "post" /\ last_failure_time' = now
              \* the same instant, read on the next iteration's clock
              \/ pc = "loop" /\ now' - last_failure_time' = now - last_failure_time ]_vars

\* read_book failed once (a counted failure), the next attempt's body failed
\* validation and its renewal failed: the breaker holds what read_book left
C32_Witness ==
    /\ pc = "loop" /\ outcome.error = "cookie refresh failed"
    /\ history.renewals = 1
    /\ state = CLOSED /\ failure_count = 0 /\ last_failure_time # NoTime
    /\ fail_run = 0 /\ last_call = "ok"

(***************************************************************************)
(* C33. retry_with_backoff sleeps exactly once between two consecutive     *)
(* invocations, never before the first and never after the last: a call    *)
(* that invoked the operation m times has slept m - 1 times.  The sleep    *)
(* after the j-th failed invocation (j from 0) lasts between half of and   *)
(* the whole of min(base_delay * backoff_factor^j, max_delay), hence never *)
(* longer than max_delay.  (The clock counts whole seconds: a sleep of s   *)
(* seconds advances it by d with d <= s < d + 1.)                          *)
(***************************************************************************)
\* min(base_delay * backoff_factor^j, max_delay), written out
CappedDelay(j) ==
    IF BaseDelay * Pow(BackoffFactor, j) > max_delay
    THEN max_delay ELSE BaseDelay * Pow(BackoffFactor, j)

C33_BackoffSleeps ==
    \* sleeps and invocations alternate, starting and ending with an invocation
    /\ [](pc = "r_call"  => sleeps = invocations)
    /\ [](pc = "r_sleep" => invocations >= 1 /\ sleeps = invocations - 1)
    /\ [](pc = "r_done"  => invocations >= 1 /\ sleeps = invocations - 1)
    /\ [][ /\ (sleeps' # sleeps \/ now' # now) =>
                 /\ pc = "r_sleep" /\ pc' = "r_call"
                 /\ operation[invocations] = "retryable"
                 /\ sleeps' = sleeps + 1 /\ invocations' = invocations
                 /\ LET j == invocations - 1
                        d == now' - now
                    IN /\ d <= CappedDelay(j)
                       /\ 2 * (d + 1) > CappedDelay(j)
                       /\ d <= max_delay
           /\ invocations' # invocations =>
                 /\ invocations' = invocations + 1
                 /\ sleeps' = sleeps /\ now' = now
           /\ pc = "r_done" => (sleeps' = sleeps /\ now' = now) ]_vars

\* three invocations failed, with max_delay = base_delay: two sleeps, the second
\* capped at max_delay
C33_Witness ==
    /\ pc = "r_done" /\ max_attempts = 3 /\ invocations = 3 /\ sleeps = 2
    /\ outcome = [kind |-> "raised", of |-> 3]
    /\ max_delay = BaseDelay /\ now = 2 * max_delay

(***************************************************************************)
(* C34. CircuitBreaker, failure_threshold >= 1: in every reachable state,  *)
(* between calls and while a call is in progress, state = CLOSED implies   *)
(* failure_count < failure_threshold, and state in {OPEN, HALF_OPEN}       *)
(* implies failure_count >= failure_threshold and last_failure_time set.   *)
(***************************************************************************)
C34_StateInvariant ==
    /\ failure_threshold >= 1
    /\ state \in {CLOSED, OPEN, HALF_OPEN}
    /\ failure_count >= 0
    /\ state = CLOSED => failure_count < failure_threshold
    /\ state \in {OPEN, HALF_OPEN} =>
          /\ failure_count >= failure_threshold
          /\ last_failure_time # NoTime

\* a probe in progress after an earlier probe failed: HALF_OPEN with the count
\* above the threshold
C34_Witness ==
    /\ pc = "in_call" /\ state = HALF_OPEN
    /\ failure_count > failure_threshold /\ last_failure_time # NoTime
    /\ entered.state = OPEN

(***************************************************************************)
(* C35. A call rejected by the OPEN breaker leaves state, failure_count    *)
(* and last_failure_time as they were, so rejections do not extend the     *)
(* cooldown: whatever was rejected before, a call made while the breaker   *)
(* is OPEN and at least recovery_timeout seconds after the last counted    *)
(* failure is let through as the probe.                                    *)
(***************************************************************************)
\* the step in which a call through the breaker is made
CallMade == pc = "idle" /\ calls' = calls + 1

C35_RejectionsKeepCooldown ==
    [][ /\ (CallMade /\ last_call' = "rejected") =>
              /\ state = OPEN /\ state' = OPEN
              /\ failure_count' = failure_count
              /\ last_failure_time' = last_failure_time
              /\ now - last_failure_time < recovery_timeout
        /\ (CallMade /\ state = OPEN
            /\ now - last_failure_time >= recovery_timeout) =>
              /\ last_call' = "running" /\ pc' = "in_call"
              /\ state' = HALF_OPEN /\ half_open_calls' = 1 ]_vars

\* a counted failure at time 0, then a call rejected one second later, inside the
\* cooldown: the recorded time of the failure is still 0
C35_Witness ==
    /\ pc = "idle" /\ last_call = "rejected" /\ state = OPEN
    /\ failure_threshold = 1 /\ failure_count = 1 /\ calls = 3
    /\ recovery_timeout = 2 /\ last_failure_time = 0 /\ now = 1

(***************************************************************************)
(* C36. The read breaker counts one failure per attempt whose retries were *)
(* exhausted, not one per POST: failure_count goes up only when the third  *)
(* invocation of post_json in an attempt has failed, a failed invocation   *)
(* that is retried is not counted, and an attempt whose 2nd or 3rd         *)
(* invocation returns counts as a success (CLOSED, failure_count = 0).     *)
(* With threshold 5 the breaker is OPEN only after 5 attempts in a row     *)
(* have each exhausted their 3 invocations: 15 failed invocations.         *)
(***************************************************************************)
C36_OneFailurePerAttempt ==
    /\ [][ /\ failure_count' > failure_count =>
                 /\ pc = "post" /\ pc' = "failed"
                 /\ failure_count' = failure_count + 1
                 /\ history'.posts = 3
                 /\ run'.failed_posts = run.failed_posts + 1
           /\ (Posts /\ pc' = "backoff") =>
                 /\ failure_count' = failure_count /\ state' = state
                 /\ history'.posts \in {1, 2}
           /\ (Posts /\ pc' = "returned" /\ history'.posts \in {2, 3}) =>
                 /\ state' = CLOSED /\ failure_count' = 0
                 /\ last_call' = "ok" /\ fail_run' = 0 ]_vars
    /\ [](pc \in {"loop", "failed", "finish", "done"} =>
             /\ failure_count = fail_run
             /\ run.failed_posts = 3 * failure_count)
    /\ [](state = OPEN => /\ failure_count >= 5
                          /\ run.failed_posts >= 15)

\* the fifth attempt in a row has just exhausted its three invocations: the
\* breaker opens on the 15th failed invocation
C36_Witness ==
    /\ pc = "failed" /\ state = OPEN /\ last_call = "expected"
    /\ failure_count = 5 /\ run.failed_posts = 15
    /\ history.posts = 3 /\ history.exception = "NetworkError"

(***************************************************************************)
(* C37. For the read breaker a read submission that returns a parsed JSON  *)
(* body is a success, whatever the body says: a body with succ != 1 or     *)
(* without synckey ends the call through the breaker with state CLOSED and *)
(* failure_count 0, although the attempt is then recorded as failed.  So   *)
(* the breaker is OPEN only when its last 5 calls all ended in             *)
(* NetworkError, none of them having returned a body.                      *)
(***************************************************************************)
C37_BodyIsBreakerSuccess ==
    /\ [][ /\ (Posts /\ response'.kind = "json") =>
                 /\ pc' = "returned"
                 /\ state' = CLOSED /\ failure_count' = 0
                 /\ last_call' = "ok" /\ fail_run' = 0
           /\ (IterationEnds /\ response.kind = "json"
               /\ ~IsSuccessBody(response)) =>
                 /\ ~outcome'.success
                 /\ success_count' = success_count
                 /\ state' = CLOSED /\ failure_count' = 0 ]_vars
    /\ [](state = OPEN => fail_run >= failure_threshold)
    /\ [](pc = "returned" => state = CLOSED /\ failure_count = 0)

\* the fourth attempt failed with NetworkError (a counted failure), the fifth got
\* a body that fails validation: the count is 0 and the attempt is recorded as
\* failed
C37_Witness ==
    /\ pc = "loop" /\ run.attempts = 5 /\ ~outcome.success
    /\ outcome.error \in {"cookie refreshed", "cookie refresh failed"}
    /\ state = CLOSED /\ failure_count = 0 /\ success_count = 0
    /\ now - last_failure_time = FailureSleep + FailureSleep

(***************************************************************************)
(* C38. calculate_hash reads the character at index 0 only when the input  *)
(* length is even.  For a string of odd length the indices read are        *)
(* 1 .. length-1, and replacing the first character by any other leaves    *)
(* the hash unchanged.  For a string of even length every index            *)
(* 0 .. length-1 is read, each exactly once, and XORed into one of the two *)
(* accumulators; as long as no shifted code passes the 31st digit (length  *)
(* up to 10, code points being below 2^21) replacing any one character     *)
(* changes the hash.                                                       *)
(***************************************************************************)
\* the indices read by the call
Read == { history[k] : k \in DOMAIN history }

\* the string with the character at the 0-based index p replaced by c
Replaced(str, p, c) == [str EXCEPT ![p + 1] = c]

C38_FirstCharacterIgnoredWhenOdd ==
    pc = "h_done" =>
       LET length == Len(input_string)
       IN /\ (0 \in Read) <=> (length > 0 /\ length % 2 = 0)
          /\ Cardinality(Read) = Len(history)
          /\ length % 2 = 1 =>
                /\ Read = 1..(length - 1)
                /\ \A c \in Codes :
                      CalculateHash(Replaced(input_string, 0, c)) = digest
          /\ length % 2 = 0 =>
                /\ Read = 0..(length - 1)
                /\ length <= 10 =>
                      \A p \in 0..(length - 1) :
                         \A c \in Codes \ {input_string[p + 1]} :
                            CalculateHash(Replaced(input_string, p, c)) # digest

\* a call on a string of three characters has returned, having read the indices
\* 2 and 1
C38_Witness ==
    /\ pc = "h_done" /\ Len(input_string) = 3
    /\ history = <<2, 1>>
    /\ input_string[1] # input_string[2]

(***************************************************************************)
(* C39, as claimed: whatever the outcomes of the network calls, the run    *)
(* reaches completion after exactly READ_NUM loop iterations.              *)
(***************************************************************************)
C39_AsClaimed == <>(pc = "done" /\ run.attempts = read_num)

(***************************************************************************)
(* C39, amended.  When every network call and every sleep returns,         *)
(* start_reading terminates.  If the initial renewal fails it raises       *)
(* AuthError before the first iteration, with no read submission made.  If *)
(* the initial renewal succeeds the run completes after exactly READ_NUM   *)
(* loop iterations, whatever the outcomes of the attempts.  In both cases  *)
(* post_json is invoked for read submissions at most 3 times per attempt,  *)
(* 3 * READ_NUM times at most in the run, and each attempt makes at most   *)
(* one renewal call or one repair call (the initial renewal comes on top). *)
(***************************************************************************)
Terminated == pc \in {"done", "aborted"}

C39_Terminates ==
    /\ <>Terminated
    /\ [](run.renewed = "ok" => pc # "aborted")
    /\ [](pc = "aborted" =>
             /\ run.renewed = "failed"
             /\ run.attempts = 0 /\ run.posts = 0 /\ history.renewals = 1)
    /\ [](pc = "done" => /\ run.renewed = "ok"
                         /\ run.attempts = read_num
                         /\ loop_attempt = read_num + 1)
    /\ [](/\ run.attempts <= read_num
          /\ history.posts <= 3
          /\ run.posts <= 3 * run.attempts
          /\ run.posts <= 3 * read_num
          /\ history.renewals + history.repairs <= 1)

\* a completed run in which every attempt exhausted its three invocations for as
\* long as the breaker let it: five attempts of three POSTs, the sixth rejected
C39_Witness ==
    /\ pc = "done" /\ run.attempts = read_num /\ run.renewed = "ok"
    /\ run.posts = 3 * ReadThreshold /\ success_count = 0
    /\ state = OPEN

(***************************************************************************)
(* C40. The completion notification is emitted at most once per run, and   *)
(* only after the READ_NUM-th attempt and the sleep that follows it have   *)
(* finished.  It is never emitted in a run that aborted on the failure of  *)
(* the initial renewal; in that run refresh_cookie emits one error         *)
(* notification, when the notifier is enabled, before AuthError is raised. *)
(***************************************************************************)
C40_CompletionNotification ==
    /\ [](run.completion_notes \in {0, 1})
    /\ [][ run'.completion_notes # run.completion_notes =>
              /\ pc = "finish" /\ notification_enabled
              /\ run'.completion_notes = run.completion_notes + 1
              \* all READ_NUM attempts have been made, the last one's sleep included
              /\ run.attempts = read_num /\ loop_attempt = read_num + 1
              /\ outcome # NoOutcome
              /\ now >= Epoch + (IF outcome.success THEN 30 ELSE 5)
              /\ run.renewed = "ok" ]_vars
    /\ [][ pc' = "aborted" =>
              /\ pc = "init"
              /\ outcome'.error = "AuthError"
              /\ history'.renewals = 1
              /\ history'.error_notes = IF notification_enabled THEN 1 ELSE 0
              /\ history'.note \in (IF notification_enabled THEN NotifyResults
                                    ELSE {"none"}) ]_vars
    /\ [](pc = "aborted" => run.completion_notes = 0 /\ ~ENABLED Next)
    /\ [](run.completion_notes = 1 => pc \in {"done", "raised"})

\* a completed run with the notifier enabled: one completion notification, sent
\* after the sleep of the last attempt
C40_Witness ==
    /\ pc = "done" /\ notification_enabled /\ run.completion_notes = 1
    /\ run.attempts = read_num /\ outcome.success
    /\ now = Epoch + SuccessSleep /\ history.note = "ok"

====
